---- MODULE Spec2Model ----
(***************************************************************************)
(* SRT timestamp fixer: the timestamp classifier (analyze_timestamp_format,*)
(* fix_timestamp_format), the line processor                               *)
(* (find_and_analyze_timestamp_line) and the file pass (process_srt_file)  *)
(* of srt_script/convert_to_srt.py.                                        *)
(*                                                                         *)
(* A Python str is a sequence of one-character strings.  An optional value *)
(* (None or a value) is a sequence of length at most one.                  *)
(***************************************************************************)
EXTENDS Integers, Sequences, FiniteSets, TLC

VARIABLES
    pc,               \* position of the running operation
    timestamp,        \* classifier: the argument of analyze/fix
    analysis,         \* classifier: Some(analyze_timestamp_format(timestamp))
    fixed,            \* classifier: Some(fix_timestamp_format(timestamp))
    refixed,          \* classifier: Some(fix_timestamp_format(fixed))
    line,             \* line processor: the argument
    result,           \* line processor: Some(find_and_analyze_timestamp_line(line))
    lines,            \* file pass: infile.readlines()
    line_num,         \* file pass: number of lines the loop has consumed
    processed_lines,  \* file pass: the output lines so far
    stats,            \* file pass: the statistics dict
    outfile,          \* file pass: Some(lines written to the output file)
    content,          \* demo script: the text read from the input file
    arrow_lines,      \* demo script: what step1_find_arrow_lines returned
    analyzed_lines,   \* demo script: what step2_analyze_timestamps returned
    fixed_lines,      \* demo script: what step3_fix_timestamps returned
    fixed_content,    \* demo script: Some(text written to the output file)
    calls,            \* web server: the frame of each running upload request
    folder,           \* web server: the files of the upload folder
    served,           \* web server: the answers of the download requests
    first_pass,       \* second run: Some(what the first run read, wrote and counted)
    preview,          \* web server: Some(the answer of /preview)
    gui_issues,       \* GUI: Some(what analyze_file_for_issues returned)
    input_file,       \* GUI: self.input_file
    output_file,      \* GUI: self.output_file
    create_backup,    \* GUI: create_backup_var
    auto_output,      \* GUI: auto_output_var
    process_btn,      \* GUI: state of the Fix Timestamps button
    preview_btn,      \* GUI: state of the Preview Changes button
    workers,          \* GUI: the threads started by start_processing
    after_queue,      \* GUI: callbacks scheduled with root.after(0, ...)
    disk,             \* GUI: the files, by path
    status,           \* GUI: status_var
    results_text,     \* GUI: what the results area shows
    edits             \* GUI: how often the user has changed a field or a check box

vars == <<pc, timestamp, analysis, fixed, refixed, line, result,
          lines, line_num, processed_lines, stats, outfile,
          content, arrow_lines, analyzed_lines, fixed_lines, fixed_content,
          calls, folder, served,
          first_pass, preview, gui_issues,
          input_file, output_file, create_backup, auto_output,
          process_btn, preview_btn, workers, after_queue, disk, status,
          results_text, edits>>

tsVars == <<timestamp, analysis, fixed, refixed>>
lineVars == <<line, result>>
fileVars == <<lines, line_num, processed_lines, stats, outfile>>
demoVars == <<content, arrow_lines, analyzed_lines, fixed_lines, fixed_content>>
webVars == <<calls, folder, served>>
rerunVars == <<first_pass>>
previewVars == <<preview, gui_issues>>
guiVars == <<input_file, output_file, create_backup, auto_output,
             process_btn, preview_btn, workers, after_queue, disk, status,
             results_text, edits>>
extVars == <<rerunVars, previewVars, guiVars>>

\* TheOnly({e(x) : x \in {v}}) is e(v), with v computed once
TheOnly(S) == CHOOSE x \in S : TRUE

Min(S) == CHOOSE x \in S : \A y \in S : x <= y

Max(S) == CHOOSE x \in S : \A y \in S : y <= x

None == <<>>
Some(x) == <<x>>
IsSome(o) == Len(o) = 1
Get(o) == o[1]

(***************************************************************************)
(* Bounds of the model.                                                    *)
(***************************************************************************)
MaxGroups == 4
MaxDigits == 3
MaxTokens == 3
MaxLines == 3

(***************************************************************************)
(* Character classes of Python's str.strip(), \d and \s.                   *)
(***************************************************************************)
Digits == {"0", "1", "2", "3", "4", "5", "6", "7", "8", "9"}

Whitespace == {" ", "\t", "\n", "\r", "\f"}

IsDigit(c) == c \in Digits

IsSpace(c) == c \in Whitespace

Arrow == <<"-", "-", ">">>

ArrowSep == <<" ", "-", "-", ">", " ">>

RECURSIVE lstrip(_)
lstrip(s) ==
    IF s = <<>> \/ ~IsSpace(Head(s)) THEN s ELSE lstrip(Tail(s))

RECURSIVE rstrip(_)
rstrip(s) ==
    IF s = <<>> \/ ~IsSpace(s[Len(s)]) THEN s
    ELSE rstrip(SubSeq(s, 1, Len(s) - 1))

\* str.strip()
strip(s) == rstrip(lstrip(s))

\* str.rstrip('\n\r')
RECURSIVE rstrip_newlines(_)
rstrip_newlines(s) ==
    IF s = <<>> \/ s[Len(s)] \notin {"\n", "\r"} THEN s
    ELSE rstrip_newlines(SubSeq(s, 1, Len(s) - 1))

(***************************************************************************)
(* Regular-expression pieces, matched at a position as re does.            *)
(***************************************************************************)
\* \d{n} at position i
DigitsAt(s, i, n) ==
    /\ i + n - 1 <= Len(s)
    /\ \A k \in i..(i + n - 1) : IsDigit(s[k])

\* a literal character at position i
CharAt(s, i, c) == i <= Len(s) /\ s[i] = c

\* '$' at position i: the end of the string, or just before a final newline
AtEnd(s, i) == i = Len(s) + 1 \/ (i = Len(s) /\ s[i] = "\n")

full_pattern_ranged(s) ==
    /\ DigitsAt(s, 1, 2) /\ CharAt(s, 3, ":")
    /\ DigitsAt(s, 4, 2) /\ CharAt(s, 6, ":")
    /\ DigitsAt(s, 7, 2) /\ CharAt(s, 9, ",")
    /\ DigitsAt(s, 10, 3) /\ AtEnd(s, 13)
    /\ s[4] \in {"0", "1", "2", "3", "4", "5"}
    /\ s[7] \in {"0", "1", "2", "3", "4", "5"}

\* re.match(r'^(\d{2}):(\d{2}):(\d{2}),(\d{3})$', s)
full_pattern(s) ==
    /\ DigitsAt(s, 1, 2) /\ CharAt(s, 3, ":")
    /\ DigitsAt(s, 4, 2) /\ CharAt(s, 6, ":")
    /\ DigitsAt(s, 7, 2) /\ CharAt(s, 9, ",")
    /\ DigitsAt(s, 10, 3) /\ AtEnd(s, 13)

\* \d{1,2}:\d{2},\d{3} at position i with m digits of minutes; the position
\* after the match, or 0
ShortTokenEnd(s, i, m) ==
    IF /\ DigitsAt(s, i, m) /\ CharAt(s, i + m, ":")
       /\ DigitsAt(s, i + m + 1, 2) /\ CharAt(s, i + m + 3, ",")
       /\ DigitsAt(s, i + m + 4, 3)
    THEN i + m + 7 ELSE 0

\* \d{1,2} is greedy: two digits are tried first, then one
ShortTokenAt(s, i) ==
    IF ShortTokenEnd(s, i, 2) # 0 THEN ShortTokenEnd(s, i, 2)
    ELSE ShortTokenEnd(s, i, 1)

short_pattern_unanchored(s) ==
    LET m == IF ShortTokenEnd(s, 1, 2) # 0 THEN 2
             ELSE IF ShortTokenEnd(s, 1, 1) # 0 THEN 1 ELSE 0
    IN IF m = 0 THEN None
       ELSE Some([minutes |-> SubSeq(s, 1, m),
                  seconds |-> SubSeq(s, m + 2, m + 3),
                  milliseconds |-> SubSeq(s, m + 5, m + 7)])

\* re.match(r'^(\d{1,2}):(\d{2}),(\d{3})$', s).groups(), or None
short_pattern(s) ==
    LET m == IF ShortTokenEnd(s, 1, 2) # 0 /\ AtEnd(s, ShortTokenEnd(s, 1, 2))
             THEN 2
             ELSE IF ShortTokenEnd(s, 1, 1) # 0 /\ AtEnd(s, ShortTokenEnd(s, 1, 1))
             THEN 1 ELSE 0
    IN IF m = 0 THEN None
       ELSE Some([minutes |-> SubSeq(s, 1, m),
                  seconds |-> SubSeq(s, m + 2, m + 3),
                  milliseconds |-> SubSeq(s, m + 5, m + 7)])

\* format spec '0>2': right-align in width 2, filling with '0'
RECURSIVE pad02(_)
pad02(s) == IF Len(s) >= 2 THEN s ELSE pad02(<<"0">> \o s)

(***************************************************************************)
(* Timestamp classifier                                                    *)
(***************************************************************************)
analyze_unknown_unflagged(ts) ==
    TheOnly({
        LET base == [original |-> ts,
                     is_valid_srt |-> FALSE,
                     has_hours |-> FALSE,
                     format_detected |-> "None",
                     needs_fixing |-> FALSE,
                     cleaned |-> clean_timestamp]
        IN IF full_pattern(clean_timestamp)
           THEN [base EXCEPT !.is_valid_srt = TRUE, !.has_hours = TRUE,
                             !.format_detected = "HH:MM:SS,mmm",
                             !.needs_fixing = FALSE]
           ELSE IF IsSome(short_pattern(clean_timestamp))
           THEN [base EXCEPT !.has_hours = FALSE,
                             !.format_detected = "MM:SS,mmm",
                             !.needs_fixing = TRUE]
           ELSE [base EXCEPT !.format_detected = "unknown"]
        : clean_timestamp \in {strip(ts)}})

analyze_timestamp_format(ts) ==
    TheOnly({
        LET base == [original |-> ts,
                     is_valid_srt |-> FALSE,
                     has_hours |-> FALSE,
                     format_detected |-> "None",
                     needs_fixing |-> FALSE,
                     cleaned |-> clean_timestamp]
        IN IF full_pattern(clean_timestamp)
           THEN [base EXCEPT !.is_valid_srt = TRUE, !.has_hours = TRUE,
                             !.format_detected = "HH:MM:SS,mmm",
                             !.needs_fixing = FALSE]
           ELSE IF IsSome(short_pattern(clean_timestamp))
           THEN [base EXCEPT !.has_hours = FALSE,
                             !.format_detected = "MM:SS,mmm",
                             !.needs_fixing = TRUE]
           ELSE [base EXCEPT !.format_detected = "unknown",
                             !.needs_fixing = TRUE]
        : clean_timestamp \in {strip(ts)}})

fix_timestamp_format_nopad(ts) ==
    TheOnly({
        IF IsSome(match)
        THEN <<"0", "0", ":">> \o Get(match).minutes \o <<":">>
             \o Get(match).seconds \o <<",">> \o Get(match).milliseconds
        ELSE clean_timestamp
        : <<clean_timestamp, match>> \in
            {<<c, short_pattern(c)>> : c \in {strip(ts)}}})

fix_timestamp_format_prefix_all(ts) ==
    TheOnly({
        IF IsSome(match)
        THEN <<"0", "0", ":">> \o pad02(Get(match).minutes) \o <<":">>
             \o Get(match).seconds \o <<",">> \o Get(match).milliseconds
        ELSE IF full_pattern(clean_timestamp) THEN clean_timestamp
        ELSE <<"0", "0", ":">> \o clean_timestamp
        : <<clean_timestamp, match>> \in
            {<<c, short_pattern(c)>> : c \in {strip(ts)}}})

fix_timestamp_format(ts) ==
    TheOnly({
        IF IsSome(match)
        THEN <<"0", "0", ":">> \o pad02(Get(match).minutes) \o <<":">>
             \o Get(match).seconds \o <<",">> \o Get(match).milliseconds
        ELSE clean_timestamp
        : <<clean_timestamp, match>> \in
            {<<c, short_pattern(c)>> : c \in {strip(ts)}}})

(***************************************************************************)
(* Line processor                                                          *)
(***************************************************************************)
\* s[i..] starts with the literal '-->'
ArrowAt(s, i) ==
    /\ i + 2 <= Len(s)
    /\ s[i] = "-" /\ s[i + 1] = "-" /\ s[i + 2] = ">"

\* '-->' in line
contains_arrow(s) == \E i \in 1..Len(s) : ArrowAt(s, i)

\* line.split('-->') from position start on: the parts around the occurrences
\* of '-->', found left to right
RECURSIVE SplitFrom(_, _)
SplitFrom(s, start) ==
    TheOnly({
        IF found = {} THEN <<SubSeq(s, start, Len(s))>>
        ELSE TheOnly({<<SubSeq(s, start, i - 1)>> \o SplitFrom(s, i + 3) :
                        i \in {Min(found)}})
        : found \in {{k \in start..Len(s) : ArrowAt(s, k)}}})

\* line.split('-->', 1)
split_arrow_once(s) ==
    TheOnly({
        IF found = {} THEN <<s>>
        ELSE TheOnly({<<SubSeq(s, 1, i - 1), SubSeq(s, i + 3, Len(s))>> :
                        i \in {Min(found)}})
        : found \in {{k \in 1..Len(s) : ArrowAt(s, k)}}})

split_arrow(s) == SplitFrom(s, 1)

\* the length of the run of whitespace at position j
RECURSIVE WsRun(_, _)
WsRun(s, j) ==
    IF j <= Len(s) /\ IsSpace(s[j]) THEN 1 + WsRun(s, j + 1) ELSE 0

\* (\d{1,2}:\d{2},\d{3})\s+(\d{1,2}:\d{2},\d{3}) at position i, the left token
\* with m digits of minutes; \s+ is greedy and gives back
PairAtWith(s, i, m) ==
    TheOnly({
        IF e1 = 0 THEN None
        ELSE TheOnly({
               IF ws = {} THEN None
               ELSE TheOnly({
                      Some([left |-> SubSeq(s, i, e1 - 1),
                            right |-> SubSeq(s, e1 + w, ShortTokenAt(s, e1 + w) - 1)])
                      : w \in {Max(ws)}})
               : ws \in {{w \in 1..WsRun(s, e1) : ShortTokenAt(s, e1 + w) # 0}}})
        : e1 \in {ShortTokenEnd(s, i, m)}})

PairAt(s, i) ==
    TheOnly({IF IsSome(two) THEN two ELSE PairAtWith(s, i, 1) :
               two \in {PairAtWith(s, i, 2)}})

search_pair_last(s) ==
    TheOnly({
        IF starts = {} THEN None ELSE PairAt(s, Max(starts))
        : starts \in {{i \in 1..Len(s) : IsSome(PairAt(s, i))}}})

\* re.search(timestamp_pattern, line).groups(), or None: the match at the
\* leftmost position that has one
search_pair(s) ==
    TheOnly({
        IF starts = {} THEN None ELSE PairAt(s, Min(starts))
        : starts \in {{i \in 1..Len(s) : IsSome(PairAt(s, i))}}})

left_needs_fixing(left_analysis, right_analysis) == left_analysis.needs_fixing

\* line 128: the test that decides whether the line is rewritten
either_needs_fixing(left_analysis, right_analysis) ==
    left_analysis.needs_fixing \/ right_analysis.needs_fixing

\* lines 114-134: the line holds '-->'
ArrowBranch(res, parts) ==
    LET branchA == [res EXCEPT !.has_arrow = TRUE, !.is_timestamp_line = TRUE]
    IN IF Len(parts) = 2
       THEN TheOnly({
              LET split == [branchA EXCEPT
                              !.left_timestamp = Some(left_part),
                              !.right_timestamp = Some(right_part),
                              !.left_analysis = Some(left_analysis),
                              !.right_analysis = Some(right_analysis)]
              IN IF either_needs_fixing(left_analysis, right_analysis)
                 THEN [split EXCEPT
                         !.needs_fixing = TRUE,
                         !.fixed_line =
                             Some(fix_timestamp_format(left_part) \o ArrowSep
                                  \o fix_timestamp_format(right_part))]
                 ELSE split
              : <<left_part, left_analysis>> \in
                    {<<l, analyze_timestamp_format(l)>> : l \in {strip(parts[1])}},
                <<right_part, right_analysis>> \in
                    {<<r, analyze_timestamp_format(r)>> : r \in {strip(parts[2])}}})
       ELSE branchA

\* re.search(r'\d{1,2}:\d{2},\d{3}\s+\d{1,2}:\d{2},\d{3}', line)
has_timestamp_pair(s) == IsSome(search_pair(s))

PairBranch_arrow_only(res, match) ==
    LET branchB == [res EXCEPT !.is_timestamp_line = TRUE,
                               !.has_arrow = FALSE,
                               !.needs_fixing = TRUE]
    IN TheOnly({
         [branchB EXCEPT
            !.left_timestamp = Some(left_part),
            !.right_timestamp = Some(right_part),
            !.left_analysis = Some(analyze_timestamp_format(left_part)),
            !.right_analysis = Some(analyze_timestamp_format(right_part)),
            !.fixed_line = Some(left_part \o ArrowSep \o right_part)]
         : left_part \in {Get(match).left}, right_part \in {Get(match).right}})

PairBranch_unmatched(res, match) ==
    [res EXCEPT !.is_timestamp_line = TRUE,
                !.has_arrow = FALSE,
                !.needs_fixing = TRUE]

\* lines 138-157: no '-->', a pair of short timestamps was found; match is the
\* second search, with the two tokens as groups
PairBranch(res, match) ==
    LET branchB == [res EXCEPT !.is_timestamp_line = TRUE,
                               !.has_arrow = FALSE,
                               !.needs_fixing = TRUE]
    IN IF IsSome(match)
       THEN TheOnly({
              [branchB EXCEPT
                 !.left_timestamp = Some(left_part),
                 !.right_timestamp = Some(right_part),
                 !.left_analysis = Some(analyze_timestamp_format(left_part)),
                 !.right_analysis = Some(analyze_timestamp_format(right_part)),
                 !.fixed_line =
                     Some(fix_timestamp_format(left_part) \o ArrowSep
                          \o fix_timestamp_format(right_part))]
              : left_part \in {Get(match).left}, right_part \in {Get(match).right}})
       ELSE branchB

find_and_analyze_pair_first(ln) ==
    TheOnly({
        LET res == [original_line |-> text,
                    is_timestamp_line |-> FALSE,
                    has_arrow |-> FALSE,
                    left_timestamp |-> None,
                    right_timestamp |-> None,
                    left_analysis |-> None,
                    right_analysis |-> None,
                    needs_fixing |-> FALSE,
                    fixed_line |-> None]
        IN IF has_timestamp_pair(text)
           THEN TheOnly({PairBranch(res, match) : match \in {search_pair(text)}})
           ELSE IF contains_arrow(text)
           THEN TheOnly({ArrowBranch(res, parts) : parts \in {split_arrow(text)}})
           ELSE res
        : text \in {ln}})

find_and_analyze_timestamp_line(ln) ==
    TheOnly({
        LET res == [original_line |-> text,
                    is_timestamp_line |-> FALSE,
                    has_arrow |-> FALSE,
                    left_timestamp |-> None,
                    right_timestamp |-> None,
                    left_analysis |-> None,
                    right_analysis |-> None,
                    needs_fixing |-> FALSE,
                    fixed_line |-> None]
        IN IF contains_arrow(text)
           THEN TheOnly({ArrowBranch(res, parts) : parts \in {split_arrow(text)}})
           ELSE IF has_timestamp_pair(text)
           THEN TheOnly({PairBranch(res, match) : match \in {search_pair(text)}})
           ELSE res
        : text \in {ln}})

(***************************************************************************)
(* File pass: process_srt_file, one loop iteration per step                *)
(***************************************************************************)
InitStats == [total_lines |-> 0,
              timestamp_lines_found |-> 0,
              timestamp_lines_fixed |-> 0,
              issues_found |-> <<>>,
              fixes_applied |-> <<>>]

issue_desc_untrimmed(n, a) ==
    [line_num |-> n,
     text |-> a.original_line,
     missing_arrow |-> ~a.has_arrow,
     left |-> IF IsSome(a.left_analysis) /\ Get(a.left_analysis).needs_fixing
              THEN Some(Get(a.left_analysis).format_detected) ELSE None,
     right |-> IF IsSome(a.right_analysis) /\ Get(a.right_analysis).needs_fixing
               THEN Some(Get(a.right_analysis).format_detected) ELSE None]

\* issue_desc: "Line {n}: '{text}'" followed by the optional " (missing arrow)",
\* " (left timestamp: {format})" and " (right timestamp: {format})" parts, kept
\* as the fields that are formatted into it
issue_desc(n, a) ==
    [line_num |-> n,
     text |-> strip(a.original_line),
     missing_arrow |-> ~a.has_arrow,
     left |-> IF IsSome(a.left_analysis) /\ Get(a.left_analysis).needs_fixing
              THEN Some(Get(a.left_analysis).format_detected) ELSE None,
     right |-> IF IsSome(a.right_analysis) /\ Get(a.right_analysis).needs_fixing
               THEN Some(Get(a.right_analysis).format_detected) ELSE None]

\* fix_desc: "Line {n}: Fixed to '{fixed_line}'"
fix_desc(n, a) == [line_num |-> n, fixed_to |-> Get(a.fixed_line)]

ReadLines ==
    /\ pc = "open"
    /\ stats' = [stats EXCEPT !.total_lines = Len(lines)]
    /\ pc' = "loop"
    /\ UNCHANGED <<lines, line_num, processed_lines, outfile>>
    /\ UNCHANGED <<tsVars, lineVars, demoVars, webVars, extVars>>

count_line_found_unfixed(st, n, a) ==
    IF a.is_timestamp_line
    THEN IF a.needs_fixing
         THEN [st EXCEPT !.timestamp_lines_fixed = @ + 1,
                         !.issues_found = Append(@, issue_desc(n, a)),
                         !.fixes_applied = Append(@, fix_desc(n, a))]
         ELSE [st EXCEPT !.timestamp_lines_found = @ + 1]
    ELSE st

count_line_fixed_all(st, n, a) ==
    IF a.is_timestamp_line
    THEN [st EXCEPT !.timestamp_lines_found = @ + 1,
                    !.timestamp_lines_fixed = @ + 1,
                    !.issues_found = Append(@, issue_desc(n, a))]
    ELSE st

count_line_every_line(st, n, a) ==
    IF a.is_timestamp_line
    THEN IF a.needs_fixing
         THEN [st EXCEPT !.timestamp_lines_found = @ + 1,
                         !.timestamp_lines_fixed = @ + 1,
                         !.issues_found = Append(@, issue_desc(n, a)),
                         !.fixes_applied = Append(@, fix_desc(n, a))]
         ELSE [st EXCEPT !.timestamp_lines_found = @ + 1]
    ELSE [st EXCEPT !.timestamp_lines_found = @ + 1]

count_line_issue_per_found(st, n, a) ==
    IF a.is_timestamp_line
    THEN IF a.needs_fixing
         THEN [st EXCEPT !.timestamp_lines_found = @ + 1,
                         !.timestamp_lines_fixed = @ + 1,
                         !.issues_found = Append(@, issue_desc(n, a)),
                         !.fixes_applied = Append(@, fix_desc(n, a))]
         ELSE [st EXCEPT !.timestamp_lines_found = @ + 1,
                         !.issues_found = Append(@, issue_desc(n, a))]
    ELSE st

\* lines 191-210: the statistics after line n, whose analysis is a
count_line(st, n, a) ==
    IF a.is_timestamp_line
    THEN IF a.needs_fixing
         THEN [st EXCEPT !.timestamp_lines_found = @ + 1,
                         !.timestamp_lines_fixed = @ + 1,
                         !.issues_found = Append(@, issue_desc(n, a)),
                         !.fixes_applied = Append(@, fix_desc(n, a))]
         ELSE [st EXCEPT !.timestamp_lines_found = @ + 1]
    ELSE st

emit_line_original(ln, a) ==
    IF a.is_timestamp_line
    THEN IF a.needs_fixing
         THEN Get(a.fixed_line) \o <<"\n">>
         ELSE a.original_line \o <<"\n">>
    ELSE ln

\* lines 212-219: the output line for the line ln as read, whose analysis is a
emit_line(ln, a) ==
    IF a.is_timestamp_line /\ a.needs_fixing
    THEN Get(a.fixed_line) \o <<"\n">>
    ELSE ln

\* line 213: analysis['fixed_line'] + '\n' raises TypeError when the fixed line
\* of a line to rewrite is None
raises_type_error(a) ==
    a.is_timestamp_line /\ a.needs_fixing /\ a.fixed_line = None

ProcessLine_skip_blank ==
    /\ pc = "loop"
    /\ line_num < Len(lines)
    /\ \E n \in {line_num + 1} : \E ln \in {lines[n]} :
       \E a \in {find_and_analyze_timestamp_line(rstrip_newlines(ln))} :
          /\ line_num' = n
          /\ stats' = count_line(stats, n, a)
          /\ processed_lines' = IF strip(ln) = <<>> THEN processed_lines
                                 ELSE Append(processed_lines, emit_line(ln, a))
          /\ pc' = pc
    /\ UNCHANGED <<lines, outfile>>
    /\ UNCHANGED <<tsVars, lineVars, demoVars, webVars, extVars>>

\* one iteration of the loop over the lines; an exception leaves the loop for
\* the except clause (lines 227-229), which returns None without writing
ProcessLine ==
    /\ pc = "loop"
    /\ line_num < Len(lines)
    /\ \E n \in {line_num + 1} : \E ln \in {lines[n]} :
       \E a \in {find_and_analyze_timestamp_line(rstrip_newlines(ln))} :
          IF raises_type_error(a)
          THEN /\ pc' = "failed"
               /\ UNCHANGED <<line_num, stats, processed_lines>>
          ELSE /\ line_num' = n
               /\ stats' = count_line(stats, n, a)
               /\ processed_lines' = Append(processed_lines, emit_line(ln, a))
               /\ pc' = pc
    /\ UNCHANGED <<lines, outfile>>
    /\ UNCHANGED <<tsVars, lineVars, demoVars, webVars, extVars>>

WriteFile ==
    /\ pc = "loop"
    /\ line_num = Len(lines)
    /\ outfile' = Some(processed_lines)
    /\ pc' = "done"
    /\ UNCHANGED <<lines, line_num, processed_lines, stats>>
    /\ UNCHANGED <<tsVars, lineVars, demoVars, webVars, extVars>>

\* the text of a file whose lines, as readlines() returns them, are ss
RECURSIVE Flatten(_)
Flatten(ss) == IF ss = <<>> THEN <<>> ELSE Head(ss) \o Flatten(Tail(ss))

\* text mode with universal newlines: '\r\n' and '\r' are read as '\n'
RECURSIVE translate_newlines(_)
translate_newlines(s) ==
    TheOnly({
        IF found = {} THEN s
        ELSE TheOnly({
               SubSeq(s, 1, i - 1) \o <<"\n">> \o
               translate_newlines(SubSeq(s, (IF i < Len(s) /\ s[i + 1] = "\n"
                                             THEN i + 2 ELSE i + 1), Len(s)))
               : i \in {Min(found)}})
        : found \in {{k \in 1..Len(s) : s[k] = "\r"}}})

\* the lines of the translated text s, each with its '\n'; the text after the
\* last '\n' is a line only if it is not empty
RECURSIVE split_keep_newline(_)
split_keep_newline(s) ==
    IF s = <<>> THEN <<>>
    ELSE TheOnly({
           IF found = {} THEN <<s>>
           ELSE TheOnly({<<SubSeq(s, 1, i)>> \o split_keep_newline(SubSeq(s, i + 1, Len(s)))
                           : i \in {Min(found)}})
           : found \in {{k \in 1..Len(s) : s[k] = "\n"}}})

\* open(input_file, 'r', encoding='utf-8') and readlines() on a file of text t
read_text_lines(t) == split_keep_newline(translate_newlines(t))

\* lines 181-182 on the file that writelines(ss) wrote (lines 222-223)
readlines(ss) == TheOnly({read_text_lines(t) : t \in {Flatten(ss)}})

\* process_srt_file called on the file that the pass before has written
RunAgain ==
    /\ pc = "done"
    /\ first_pass = None
    /\ first_pass' = Some([lines |-> lines, out |-> Get(outfile), stats |-> stats])
    /\ lines' = readlines(Get(outfile))
    /\ line_num' = 0
    /\ processed_lines' = <<>>
    /\ stats' = InitStats
    /\ outfile' = None
    /\ pc' = "open"
    /\ UNCHANGED <<tsVars, lineVars, demoVars, webVars, previewVars, guiVars>>

(***************************************************************************)
(* The demo script step_by_step_fixer.py, run on the file that the file    *)
(* pass has read                                                           *)
(***************************************************************************)
\* s.split('\n') from position start on
RECURSIVE SplitNewlineFrom(_, _)
SplitNewlineFrom(s, start) ==
    TheOnly({
        IF found = {} THEN <<SubSeq(s, start, Len(s))>>
        ELSE TheOnly({<<SubSeq(s, start, i - 1)>> \o SplitNewlineFrom(s, i + 1) :
                        i \in {Min(found)}})
        : found \in {{k \in start..Len(s) : s[k] = "\n"}}})

split_newline(s) == SplitNewlineFrom(s, 1)

\* '\n'.join(ls)
RECURSIVE join_newline(_)
join_newline(ls) ==
    IF ls = <<>> THEN <<>>
    ELSE IF Len(ls) = 1 THEN ls[1]
    ELSE ls[1] \o <<"\n">> \o join_newline(Tail(ls))

HasArrow(item) == contains_arrow(item.line)

\* the (i + 1, line.strip()) of the lines that hold '-->'
step1_find_arrow_lines(c) ==
    TheOnly({
        SelectSeq([i \in 1..Len(ls) |-> [line_num |-> i, line |-> strip(ls[i])]],
                  HasArrow)
        : ls \in {split_newline(c)}})

analyze_single_timestamp(ts) ==
    TheOnly({
        IF full_pattern(t)
        THEN [format |-> "HH:MM:SS,mmm", valid |-> TRUE,
              needs_fixing |-> FALSE, has_hours |-> TRUE]
        ELSE IF IsSome(short_pattern(t))
        THEN [format |-> "MM:SS,mmm", valid |-> FALSE,
              needs_fixing |-> TRUE, has_hours |-> FALSE]
        ELSE [format |-> "unknown", valid |-> FALSE,
              needs_fixing |-> TRUE, has_hours |-> FALSE]
        : t \in {strip(ts)}})

fix_single_timestamp(ts) ==
    TheOnly({
        IF IsSome(match)
        THEN <<"0", "0", ":">> \o pad02(Get(match).minutes) \o <<":">>
             \o Get(match).seconds \o <<",">> \o Get(match).milliseconds
        ELSE t
        : <<t, match>> \in {<<c, short_pattern(c)>> : c \in {strip(ts)}}})

\* line 42: left_part, right_part = line.split('-->') raises ValueError unless
\* the split yields two parts
step2_raises(al) == \E k \in 1..Len(al) : Len(split_arrow(al[k].line)) # 2

step2_analyze_timestamps(al) ==
    [k \in 1..Len(al) |->
        TheOnly({
            [line_num |-> al[k].line_num,
             original |-> al[k].line,
             left_timestamp |-> left_timestamp,
             right_timestamp |-> right_timestamp,
             left_analysis |-> analyze_single_timestamp(left_timestamp),
             right_analysis |-> analyze_single_timestamp(right_timestamp)]
            : <<left_timestamp, right_timestamp>> \in
                {<<strip(parts[1]), strip(parts[2])>> :
                    parts \in {split_arrow(al[k].line)}}})]

step3_fix_timestamps(an) ==
    [k \in 1..Len(an) |->
        [line_num |-> an[k].line_num,
         original |-> an[k].original,
         fixed |-> (IF an[k].left_analysis.needs_fixing
                    THEN fix_single_timestamp(an[k].left_timestamp)
                    ELSE an[k].left_timestamp)
                   \o ArrowSep
                   \o (IF an[k].right_analysis.needs_fixing
                       THEN fix_single_timestamp(an[k].right_timestamp)
                       ELSE an[k].right_timestamp)]]

\* lines 163-167: one fix applied to the lines
apply_fix(ls, fix) ==
    IF fix.line_num - 1 < Len(ls) /\ strip(ls[fix.line_num]) = fix.original
    THEN [ls EXCEPT ![fix.line_num] = fix.fixed]
    ELSE ls

RECURSIVE apply_fixes(_, _)
apply_fixes(ls, fl) ==
    IF fl = <<>> THEN ls ELSE apply_fixes(apply_fix(ls, Head(fl)), Tail(fl))

step4_apply_fixes(c, fl) == join_newline(apply_fixes(split_newline(c), fl))

\* main: content = f.read(), of the file the file pass has processed
DemoRead ==
    /\ pc = "done"
    /\ content' = Flatten(lines)
    /\ pc' = "demo_read"
    /\ UNCHANGED <<arrow_lines, analyzed_lines, fixed_lines, fixed_content>>
    /\ UNCHANGED <<tsVars, lineVars, fileVars, webVars, extVars>>

Step1 ==
    /\ pc = "demo_read"
    /\ arrow_lines' = step1_find_arrow_lines(content)
    /\ pc' = "step1_done"
    /\ UNCHANGED <<content, analyzed_lines, fixed_lines, fixed_content>>
    /\ UNCHANGED <<tsVars, lineVars, fileVars, webVars, extVars>>

\* the ValueError of line 42 is not caught: the script ends without output
Step2 ==
    /\ pc = "step1_done"
    /\ IF step2_raises(arrow_lines)
       THEN pc' = "demo_failed" /\ UNCHANGED analyzed_lines
       ELSE /\ analyzed_lines' = step2_analyze_timestamps(arrow_lines)
            /\ pc' = "step2_done"
    /\ UNCHANGED <<content, arrow_lines, fixed_lines, fixed_content>>
    /\ UNCHANGED <<tsVars, lineVars, fileVars, webVars, extVars>>

Step3 ==
    /\ pc = "step2_done"
    /\ fixed_lines' = step3_fix_timestamps(analyzed_lines)
    /\ pc' = "step3_done"
    /\ UNCHANGED <<content, arrow_lines, analyzed_lines, fixed_content>>
    /\ UNCHANGED <<tsVars, lineVars, fileVars, webVars, extVars>>

\* step 4 and the write of output_fixed.srt
Step4 ==
    /\ pc = "step3_done"
    /\ fixed_content' = Some(step4_apply_fixes(content, fixed_lines))
    /\ pc' = "demo_done"
    /\ UNCHANGED <<content, arrow_lines, analyzed_lines, fixed_lines>>
    /\ UNCHANGED <<tsVars, lineVars, fileVars, webVars, extVars>>

(***************************************************************************)
(* The web server srt_fixer_web.py: upload requests, each running          *)
(* processor.process_srt_file in a frame of its own, and download requests *)
(***************************************************************************)
Requests == {"r1", "r2"}

\* the frame that holds the locals of the call made for request r
frame_shared(r) == "r1"

frame(r) == r

\* f"{unique_id}_{filename}" and f"{unique_id}_{name}_fixed{ext}": the
\* unique_id of a request is taken as distinct from that of any other
input_filename(r) == <<r, "in">>

output_filename(r) == <<r, "out">>

\* the folder with the file named k holding v
WithFile(dir, k, v) ==
    [n \in DOMAIN dir \cup {k} |-> IF n = k THEN v ELSE dir[n]]

\* the folder after os.remove of the file named k
WithoutFile(dir, k) == [n \in DOMAIN dir \ {k} |-> dir[n]]

\* lines 152-169: the statistics after line n; no fix description is kept
web_count_line(st, n, a) ==
    IF a.is_timestamp_line
    THEN IF a.needs_fixing
         THEN [st EXCEPT !.timestamp_lines_found = @ + 1,
                         !.timestamp_lines_fixed = @ + 1,
                         !.issues_found = Append(@, issue_desc(n, a))]
         ELSE [st EXCEPT !.timestamp_lines_found = @ + 1]
    ELSE st

\* upload_file, lines 201-206: file.save(input_path)
Upload(r) ==
    /\ pc = "web"
    /\ calls[r].pc = "idle"
    /\ folder' = WithFile(folder, input_filename(r), calls[r].upload)
    /\ calls' = [calls EXCEPT ![r].pc = "saved"]
    /\ UNCHANGED <<pc, served, tsVars, lineVars, fileVars, demoVars, extVars>>

\* a byte that is not valid UTF-8, as one character of a saved file
InvalidByte == "<FF>"

\* open(..., encoding='utf-8') and readlines() decode the file ls
IsDecodable(ls) == \A i \in 1..Len(ls) : \A j \in 1..Len(ls[i]) : ls[i][j] # InvalidByte

\* process_srt_file, lines 137-150; the UnicodeDecodeError of readlines() on
\* an undecodable file is caught by upload_file (lines 226-228), which
\* flashes the message and redirects
WebReadLines(r) ==
    /\ pc = "web"
    /\ calls[r].pc = "saved"
    /\ \E f \in {frame(r)} : \E ls \in {folder[input_filename(r)]} :
          IF IsDecodable(ls)
          THEN calls' = [calls EXCEPT ![r].pc = "loop",
                                      ![f].lines = ls,
                                      ![f].line_num = 0,
                                      ![f].processed_lines = <<>>,
                                      ![f].stats = [InitStats EXCEPT
                                                      !.total_lines = Len(ls)]]
          ELSE calls' = [calls EXCEPT ![r].pc = "error"]
    /\ UNCHANGED <<pc, folder, served, tsVars, lineVars, fileVars, demoVars, extVars>>

\* process_srt_file, lines 152-174: one iteration of the loop; an exception
\* is caught by upload_file (lines 226-228), which leaves the input file
WebProcessLine(r) ==
    /\ pc = "web"
    /\ calls[r].pc = "loop"
    /\ \E f \in {frame(r)} :
          /\ calls[f].line_num < Len(calls[f].lines)
          /\ \E n \in {calls[f].line_num + 1} : \E ln \in {calls[f].lines[n]} :
             \E a \in {find_and_analyze_timestamp_line(rstrip_newlines(ln))} :
                IF raises_type_error(a)
                THEN calls' = [calls EXCEPT ![r].pc = "error"]
                ELSE calls' = [calls EXCEPT
                                 ![f].line_num = n,
                                 ![f].stats = web_count_line(@, n, a),
                                 ![f].processed_lines = Append(@, emit_line(ln, a))]
    /\ UNCHANGED <<pc, folder, served, tsVars, lineVars, fileVars, demoVars, extVars>>

\* process_srt_file, lines 176-179: the output file is written
WebWriteFile(r) ==
    /\ pc = "web"
    /\ calls[r].pc = "loop"
    /\ \E f \in {frame(r)} :
          /\ calls[f].line_num = Len(calls[f].lines)
          /\ folder' = WithFile(folder, output_filename(r), calls[f].processed_lines)
    /\ calls' = [calls EXCEPT ![r].pc = "written"]
    /\ UNCHANGED <<pc, served, tsVars, lineVars, fileVars, demoVars, extVars>>

\* upload_file, lines 214-222: the input file is removed and the results page
\* is rendered with the statistics and the name of the output file
ShowResults(r) ==
    /\ pc = "web"
    /\ calls[r].pc = "written"
    /\ folder' = WithoutFile(folder, input_filename(r))
    /\ calls' = [calls EXCEPT ![r].pc = "done",
                              ![r].returned = Some(calls[frame(r)].stats)]
    /\ UNCHANGED <<pc, served, tsVars, lineVars, fileVars, demoVars, extVars>>

NotFound == <<"File not found">>

\* download_file, lines 233-245, for the output file named on the results
\* page of request r
Download(r) ==
    /\ pc = "web"
    /\ calls[r].pc = "done"
    /\ served' = [served EXCEPT ![r] =
                     IF output_filename(r) \in DOMAIN folder
                     THEN Some(folder[output_filename(r)])
                     ELSE NotFound]
    /\ UNCHANGED <<pc, calls, folder, tsVars, lineVars, fileVars, demoVars, extVars>>

\* the file pass of the web server run alone on the lines ls, from line n on
RECURSIVE WebPassFrom(_, _, _)
WebPassFrom(ls, n, acc) ==
    IF n > Len(ls) THEN acc
    ELSE TheOnly({
           WebPassFrom(ls, n + 1,
                       [stats |-> web_count_line(acc.stats, n, a),
                        out |-> Append(acc.out, emit_line(ls[n], a))])
           : a \in {find_and_analyze_timestamp_line(rstrip_newlines(ls[n]))}})

\* the statistics and the output lines of a file pass that runs alone
RunAlone(doc) ==
    WebPassFrom(doc, 1, [stats |-> [InitStats EXCEPT !.total_lines = Len(doc)],
                         out |-> <<>>])

(***************************************************************************)
(* Preview: /preview of the web server and analyze_file_for_issues of the  *)
(* GUI, on a file of text content                                          *)
(***************************************************************************)
\* the line boundaries of str.splitlines() among the characters of the model
LineBoundaries == {"\n", "\r", "\f"}

\* content.splitlines(): the lines without their boundaries; '\r\n' is one
\* boundary, and there is no empty line after a final boundary
RECURSIVE splitlines(_)
splitlines(s) ==
    IF s = <<>> THEN <<>>
    ELSE TheOnly({
           IF found = {} THEN <<s>>
           ELSE TheOnly({
                  <<SubSeq(s, 1, i - 1)>> \o
                  splitlines(SubSeq(s, (IF s[i] = "\r" /\ i < Len(s) /\ s[i + 1] = "\n"
                                        THEN i + 2 ELSE i + 1), Len(s)))
                  : i \in {Min(found)}})
           : found \in {{k \in 1..Len(s) : s[k] \in LineBoundaries}}})

\* srt_fixer_web.py lines 267-281: the issue of line n, whose analysis is a
preview_issue(n, a) ==
    [line_number |-> n,
     original |-> strip(a.original_line),
     fixed |-> a.fixed_line,
     issues |-> (IF ~a.has_arrow THEN <<<<"missing arrow">>>> ELSE <<>>)
                \o (IF IsSome(a.left_analysis) /\ Get(a.left_analysis).needs_fixing
                    THEN <<<<"left", Get(a.left_analysis).format_detected>>>> ELSE <<>>)
                \o (IF IsSome(a.right_analysis) /\ Get(a.right_analysis).needs_fixing
                    THEN <<<<"right", Get(a.right_analysis).format_detected>>>> ELSE <<>>)]

\* srt_fixer_web.py lines 263-283: the issues of the lines ls from line n on
RECURSIVE preview_issues_from(_, _)
preview_issues_from(ls, n) ==
    IF n > Len(ls) THEN <<>>
    ELSE TheOnly({
           (IF a.is_timestamp_line /\ a.needs_fixing
            THEN <<preview_issue(n, a)>> ELSE <<>>)
           \o preview_issues_from(ls, n + 1)
           : a \in {find_and_analyze_timestamp_line(ls[n])}})

\* issues[:20]
PreviewLimit == 20

\* /preview, srt_fixer_web.py lines 258-287, on an upload of text content
WebPreview ==
    /\ pc = "preview_input"
    /\ preview = None
    /\ \E issues \in {preview_issues_from(splitlines(content), 1)} :
          preview' = Some([issues_count |-> Len(issues),
                           issues |-> SubSeq(issues, 1, Min({Len(issues), PreviewLimit}))])
    /\ UNCHANGED <<pc, content, gui_issues>>
    /\ UNCHANGED <<arrow_lines, analyzed_lines, fixed_lines, fixed_content>>
    /\ UNCHANGED <<tsVars, lineVars, fileVars, webVars, rerunVars, guiVars>>

\* srt_fixer_gui.py lines 454-466: the issue descriptions of the lines ls from
\* line n on
RECURSIVE gui_issues_from(_, _)
gui_issues_from(ls, n) ==
    IF n > Len(ls) THEN <<>>
    ELSE TheOnly({
           (IF a.is_timestamp_line /\ a.needs_fixing
            THEN <<issue_desc(n, a)>> ELSE <<>>)
           \o gui_issues_from(ls, n + 1)
           : a \in {find_and_analyze_timestamp_line(rstrip_newlines(ls[n]))}})

\* srt_fixer_gui.py lines 447-468 on a file of text t
analyze_file_for_issues(t) == gui_issues_from(read_text_lines(t), 1)

\* the analysis of preview_changes of the GUI on a file of text content
GuiPreview ==
    /\ pc = "preview_input"
    /\ gui_issues = None
    /\ gui_issues' = Some(analyze_file_for_issues(content))
    /\ UNCHANGED <<pc, content, preview>>
    /\ UNCHANGED <<arrow_lines, analyzed_lines, fixed_lines, fixed_content>>
    /\ UNCHANGED <<tsVars, lineVars, fileVars, webVars, rerunVars, guiVars>>

(***************************************************************************)
(* The desktop GUI srt_fixer_gui.py: the handlers of the main loop, the    *)
(* worker thread of start_processing, one statement group per step, and    *)
(* the callbacks it schedules with root.after                              *)
(***************************************************************************)
\* the number of worker threads started
MaxWorkers == 2

\* the number of changes the user makes to the fields and the check boxes
MaxEdits == 2

\* the files that Browse can select as input, and as output
InputPaths == {"a.srt", "b.srt"}
OutputPaths == {"out.srt"}

\* auto_generate_output_filename, lines 212-219: stem + '_fixed' + suffix
auto_output_name(p) == IF p = "a.srt" THEN "a_fixed.srt" ELSE "b_fixed.srt"

\* line 296: f"{self.input_file}.backup"
backup_path(p) == IF p = "a.srt" THEN "a.srt.backup" ELSE "b.srt.backup"

\* process_srt_file of the GUI, lines 470-519, on the lines ls: the same
\* statistics and output lines as the pass of the web server
gui_process_srt_file(ls) == RunAlone(ls)

\* a thread started for the paths that validate_inputs accepted
NewWorker(in, out) ==
    [pc |-> "start", validated_in |-> in, validated_out |-> out,
     backup_src |-> None, read_path |-> None, write_path |-> None,
     read_lines |-> <<>>, stats |-> None]

\* what a callback of the main loop changes: the buttons, the status line
\* and the results area
UiState == [process_btn |-> process_btn, preview_btn |-> preview_btn,
            status |-> status, results_text |-> results_text]

\* the callback cb run by the main loop; display_results (lines 321-344)
\* names self.output_file when there are issues
apply_callback(ui, cb, out) ==
    IF cb.kind = "status" THEN [ui EXCEPT !.status = [@ EXCEPT !.message = cb.arg]]
    ELSE IF cb.kind = "display_results"
         THEN [ui EXCEPT !.results_text =
                  [kind |-> "results", stats |-> cb.arg,
                   output |-> IF cb.arg.issues_found # <<>> THEN out ELSE None]]
    ELSE IF cb.kind = "enable_process" THEN [ui EXCEPT !.process_btn = "normal"]
    ELSE IF cb.kind = "enable_preview" THEN [ui EXCEPT !.preview_btn = "normal"]
    ELSE ui

\* root.update(): the pending callbacks run in the order they were scheduled
RECURSIVE run_pending(_, _, _)
run_pending(ui, queue, out) ==
    IF queue = <<>> THEN ui
    ELSE run_pending(apply_callback(ui, Head(queue), out), Tail(queue), out)

Callback(kind, arg) == [kind |-> kind, arg |-> arg]

\* validate_inputs, lines 236-246
validate_inputs ==
    /\ IsSome(input_file) /\ Get(input_file) \in DOMAIN disk
    /\ IsSome(output_file)

\* browse_input_file, lines 173-192, when the dialog returns the file p
BrowseInput(p) ==
    /\ pc = "gui"
    /\ edits < MaxEdits
    /\ edits' = edits + 1
    /\ input_file' = Some(p)
    /\ output_file' = IF auto_output THEN Some(auto_output_name(p)) ELSE output_file
    /\ UNCHANGED <<create_backup, auto_output, process_btn, preview_btn, workers,
                   after_queue, disk, status, results_text>>
    /\ UNCHANGED <<pc, tsVars, lineVars, fileVars, demoVars, webVars, rerunVars,
                   previewVars>>

\* browse_output_file, lines 194-210, when the dialog returns the file p
BrowseOutput(p) ==
    /\ pc = "gui"
    /\ edits < MaxEdits
    /\ edits' = edits + 1
    /\ output_file' = Some(p)
    /\ UNCHANGED <<input_file, create_backup, auto_output, process_btn, preview_btn,
                   workers, after_queue, disk, status, results_text>>
    /\ UNCHANGED <<pc, tsVars, lineVars, fileVars, demoVars, webVars, rerunVars,
                   previewVars>>

\* the check box of auto_output_var and on_auto_output_changed, lines 221-224
ToggleAutoOutput ==
    /\ pc = "gui"
    /\ edits < MaxEdits
    /\ edits' = edits + 1
    /\ auto_output' = ~auto_output
    /\ output_file' = IF auto_output' /\ IsSome(input_file)
                       THEN Some(auto_output_name(Get(input_file)))
                       ELSE output_file
    /\ UNCHANGED <<input_file, create_backup, process_btn, preview_btn, workers,
                   after_queue, disk, status, results_text>>
    /\ UNCHANGED <<pc, tsVars, lineVars, fileVars, demoVars, webVars, rerunVars,
                   previewVars>>

\* the check box of create_backup_var, lines 131-134
ToggleBackup ==
    /\ pc = "gui"
    /\ edits < MaxEdits
    /\ edits' = edits + 1
    /\ create_backup' = ~create_backup
    /\ UNCHANGED <<input_file, output_file, auto_output, process_btn, preview_btn,
                   workers, after_queue, disk, status, results_text>>
    /\ UNCHANGED <<pc, tsVars, lineVars, fileVars, demoVars, webVars, rerunVars,
                   previewVars>>

ReadyStatus == [message |-> "Ready to process SRT files", progress |-> 0]

\* clear_all, lines 226-234
ClearAll ==
    /\ pc = "gui"
    /\ edits < MaxEdits
    /\ edits' = edits + 1
    /\ input_file' = None
    /\ output_file' = None
    /\ results_text' = <<>>
    /\ status' = ReadyStatus
    /\ UNCHANGED <<create_backup, auto_output, process_btn, preview_btn, workers,
                   after_queue, disk>>
    /\ UNCHANGED <<pc, tsVars, lineVars, fileVars, demoVars, webVars, rerunVars,
                   previewVars>>

\* preview_changes, lines 248-271, on a click of the enabled Preview button:
\* root.update() runs the pending callbacks before the file is analysed
ClickPreview ==
    /\ pc = "gui"
    /\ preview_btn = "normal"
    /\ IF validate_inputs
       THEN \E ui \in {run_pending(UiState, after_queue, output_file)} :
               /\ process_btn' = ui.process_btn
               /\ preview_btn' = ui.preview_btn
               /\ status' = ui.status
               /\ after_queue' = <<>>
               /\ results_text' =
                     IF IsDecodable(disk[Get(input_file)])
                     THEN [kind |-> "preview",
                           issues |-> gui_issues_from(disk[Get(input_file)], 1)]
                     ELSE [kind |-> "analyzing"]
       ELSE UNCHANGED <<process_btn, preview_btn, status, after_queue, results_text>>
    /\ UNCHANGED <<input_file, output_file, create_backup, auto_output, workers, disk>>
    /\ UNCHANGED edits
    /\ UNCHANGED <<pc, tsVars, lineVars, fileVars, demoVars, webVars, rerunVars,
                   previewVars>>

\* start_processing, lines 273-285, on a click of the enabled Process button
ClickProcess ==
    /\ pc = "gui"
    /\ process_btn = "normal"
    /\ Len(workers) < MaxWorkers
    /\ IF validate_inputs
       THEN /\ process_btn' = "disabled"
            /\ preview_btn' = "disabled"
            /\ workers' = Append(workers, NewWorker(Get(input_file), Get(output_file)))
       ELSE UNCHANGED <<process_btn, preview_btn, workers>>
    /\ UNCHANGED <<input_file, output_file, create_backup, auto_output, after_queue,
                   disk, status, results_text>>
    /\ UNCHANGED edits
    /\ UNCHANGED <<pc, tsVars, lineVars, fileVars, demoVars, webVars, rerunVars,
                   previewVars>>

\* the main loop runs the callback scheduled first
RunCallback ==
    /\ pc = "gui"
    /\ after_queue # <<>>
    /\ \E ui \in {apply_callback(UiState, Head(after_queue), output_file)} :
          /\ process_btn' = ui.process_btn
          /\ preview_btn' = ui.preview_btn
          /\ status' = ui.status
          /\ results_text' = ui.results_text
    /\ after_queue' = Tail(after_queue)
    /\ UNCHANGED <<input_file, output_file, create_backup, auto_output, workers, disk>>
    /\ UNCHANGED edits
    /\ UNCHANGED <<pc, tsVars, lineVars, fileVars, demoVars, webVars, rerunVars,
                   previewVars>>

\* what no step of a worker changes
workerFrame == <<input_file, output_file, create_backup, auto_output, process_btn,
                 preview_btn, results_text, edits, pc, tsVars, lineVars, fileVars, demoVars,
                 webVars, rerunVars, previewVars>>

\* process_file_threaded, lines 289-293, of worker i
WorkerStart(i) ==
    /\ pc = "gui"
    /\ workers[i].pc = "start"
    /\ after_queue' = Append(after_queue, Callback("status", "Processing file..."))
    /\ status' = [status EXCEPT !.progress = 10]
    /\ workers' = [workers EXCEPT ![i].pc = IF create_backup THEN "backup" ELSE "process"]
    /\ UNCHANGED <<disk, workerFrame>>

\* lines 294-299: shutil.copy2(self.input_file, backup_path); a source that
\* is None or no file raises
WorkerBackup(i) ==
    /\ pc = "gui"
    /\ workers[i].pc = "backup"
    /\ IF IsSome(input_file) /\ Get(input_file) \in DOMAIN disk
       THEN /\ disk' = WithFile(disk, backup_path(Get(input_file)), disk[Get(input_file)])
            /\ after_queue' = Append(after_queue, Callback("status", "Created backup"))
            /\ status' = [status EXCEPT !.progress = 20]
            /\ workers' = [workers EXCEPT ![i].pc = "process",
                                          ![i].backup_src = Some(input_file)]
       ELSE /\ workers' = [workers EXCEPT ![i].pc = "except",
                                          ![i].backup_src = Some(input_file)]
            /\ UNCHANGED <<disk, after_queue, status>>
    /\ UNCHANGED workerFrame

\* line 302 and lines 480-481: process_srt_file(self.input_file,
\* self.output_file) is called and reads its input file
WorkerRead(i) ==
    /\ pc = "gui"
    /\ workers[i].pc = "process"
    /\ IF /\ IsSome(input_file) /\ Get(input_file) \in DOMAIN disk
          /\ IsDecodable(disk[Get(input_file)])
       THEN workers' = [workers EXCEPT ![i].pc = "write",
                                       ![i].read_path = Some(input_file),
                                       ![i].write_path = Some(output_file),
                                       ![i].read_lines = disk[Get(input_file)]]
       ELSE workers' = [workers EXCEPT ![i].pc = "except",
                                       ![i].read_path = Some(input_file)]
    /\ UNCHANGED <<disk, after_queue, status, workerFrame>>

\* lines 486-519 and 303: the loop, then the output file is written under the
\* path that the call was given; open(None, 'w') raises
WorkerWrite(i) ==
    /\ pc = "gui"
    /\ workers[i].pc = "write"
    /\ \E out \in {Get(workers[i].write_path)} :
          IF IsSome(out)
          THEN \E run \in {gui_process_srt_file(workers[i].read_lines)} :
                  /\ disk' = WithFile(disk, Get(out), run.out)
                  /\ status' = [status EXCEPT !.progress = 90]
                  /\ workers' = [workers EXCEPT ![i].pc = "success",
                                                ![i].stats = Some(run.stats)]
          ELSE /\ workers' = [workers EXCEPT ![i].pc = "except"]
               /\ UNCHANGED <<disk, status>>
    /\ UNCHANGED <<after_queue, workerFrame>>

\* lines 305-308: the results are handed to the main loop
WorkerSuccess(i) ==
    /\ pc = "gui"
    /\ workers[i].pc = "success"
    /\ after_queue' = after_queue \o
          <<Callback("display_results", Get(workers[i].stats)),
            Callback("status", "Processing completed successfully!")>>
    /\ status' = [status EXCEPT !.progress = 100]
    /\ workers' = [workers EXCEPT ![i].pc = "finally_process"]
    /\ UNCHANGED <<disk, workerFrame>>

\* lines 310-312: except Exception
WorkerExcept(i) ==
    /\ pc = "gui"
    /\ workers[i].pc = "except"
    /\ after_queue' = after_queue \o
          <<Callback("show_error", "Processing failed"),
            Callback("status", "Processing failed!")>>
    /\ workers' = [workers EXCEPT ![i].pc = "finally_process"]
    /\ UNCHANGED <<disk, status, workerFrame>>

\* line 314: root.after(0, lambda: self.process_btn.config(state='normal'))
WorkerEnableProcess(i) ==
    /\ pc = "gui"
    /\ workers[i].pc = "finally_process"
    /\ after_queue' = Append(after_queue, Callback("enable_process", <<>>))
    /\ workers' = [workers EXCEPT ![i].pc = "finally_preview"]
    /\ UNCHANGED <<disk, status, workerFrame>>

\* line 315: root.after(0, lambda: self.preview_btn.config(state='normal')),
\* after which the thread ends
WorkerEnablePreview(i) ==
    /\ pc = "gui"
    /\ workers[i].pc = "finally_preview"
    /\ after_queue' = Append(after_queue, Callback("enable_preview", <<>>))
    /\ workers' = [workers EXCEPT ![i].pc = "ended"]
    /\ UNCHANGED <<disk, status, workerFrame>>

(***************************************************************************)
(* The classifier and the line processor applied to an input               *)
(***************************************************************************)
AnalyzeTimestamp ==
    /\ pc = "ts_input"
    /\ analysis' = Some(analyze_timestamp_format(timestamp))
    /\ pc' = "ts_analyzed"
    /\ UNCHANGED <<timestamp, fixed, refixed, lineVars, fileVars, demoVars, webVars, extVars>>

FixTimestamp ==
    /\ pc = "ts_analyzed"
    /\ fixed' = Some(fix_timestamp_format(timestamp))
    /\ pc' = "ts_fixed"
    /\ UNCHANGED <<timestamp, analysis, refixed, lineVars, fileVars, demoVars, webVars, extVars>>

FixTimestampAgain ==
    /\ pc = "ts_fixed"
    /\ refixed' = Some(fix_timestamp_format(Get(fixed)))
    /\ pc' = "ts_refixed"
    /\ UNCHANGED <<timestamp, analysis, fixed, lineVars, fileVars, demoVars, webVars, extVars>>

AnalyzeLine ==
    /\ pc = "line_input"
    /\ result' = Some(find_and_analyze_timestamp_line(line))
    /\ pc' = "line_analyzed"
    /\ UNCHANGED <<line, tsVars, fileVars, demoVars, webVars, extVars>>

(***************************************************************************)
(* Inputs                                                                  *)
(***************************************************************************)
DigitChar == <<"0", "1", "2", "3", "4", "5", "6", "7", "8", "9">>

\* the g-th digit group of a timestamp text, n digits long
Group(g, n) == [i \in 1..n |-> DigitChar[((3 * g + i) % 10) + 1]]

Separators == {":", ","}

\* k digit groups of 1..MaxDigits digits joined by separators
RECURSIVE Fields(_)
Fields(k) ==
    IF k = 0 THEN {<<>>}
    ELSE IF k = 1 THEN {Group(1, n) : n \in 1..MaxDigits}
    ELSE {f \o <<s>> \o Group(k, n) :
            f \in Fields(k - 1), s \in Separators, n \in 1..MaxDigits}

T_1_30_500 == <<"1", ":", "3", "0", ",", "5", "0", "0">>
T_01_30_500 == <<"0", "1", ":", "3", "0", ",", "5", "0", "0">>
T_01_31_500 == <<"0", "1", ":", "3", "1", ",", "5", "0", "0">>
T_00_00_05_000 == <<"0", "0", ":", "0", "0", ":", "0", "5", ",", "0", "0", "0">>
T_00_00_07_000 == <<"0", "0", ":", "0", "0", ":", "0", "7", ",", "0", "0", "0">>
T_01_00_600 == <<"0", "1", ":", "0", "0", ",", "6", "0", "0">>
T_01_01_600 == <<"0", "1", ":", "0", "1", ",", "6", "0", "0">>
T_00_01_30_500 == <<"0", "0", ":", "0", "1", ":", "3", "0", ",", "5", "0", "0">>
T_00_01_31_500 == <<"0", "0", ":", "0", "1", ":", "3", "1", ",", "5", "0", "0">>
T_00_01_00_600 == <<"0", "0", ":", "0", "1", ":", "0", "0", ",", "6", "0", "0">>
T_00_01_01_600 == <<"0", "0", ":", "0", "1", ":", "0", "1", ",", "6", "0", "0">>

OtherTexts ==
    {T_1_30_500, T_01_30_500, T_00_01_30_500,
     <<"g", "a", "r", "b", "a", "g", "e">>,
     <<"n", "o", "n", "s", "e", "n", "s", "e">>,
     <<"0", "1", ":", "3", "0", ",", "5", "0", "0", "x">>,
     <<"x", "0", "1", ":", "3", "0", ",", "5", "0", "0">>,
     <<"0", "0", ":", "0", "1", ":", "3", "0", ",", "5", "0", "0", "x">>,
     <<"0", "1", ":", "3", "0", " ", ",", "5", "0", "0">>,
     <<"0", "1", ":", "3", "0", ".", "5", "0", "0">>,
     <<"9", "9", ":", "9", "9", ":", "9", "9", ",", "9", "9", "9">>}

Paddings ==
    {<<<<>>, <<>>>>,
     <<<<" ">>, <<>>>>,
     <<<<>>, <<" ", "\t">>>>,
     <<<<"\t", " ">>, <<"\n">>>>}

\* ts is a padded text of up to MaxGroups digit groups, or a padded other text
IsTimestampInput(ts) ==
    \E p \in Paddings :
        \/ \E k \in 0..MaxGroups : \E b \in Fields(k) : ts = p[1] \o b \o p[2]
        \/ \E b \in OtherTexts : ts = p[1] \o b \o p[2]

LineTokens == {T_1_30_500, T_01_31_500, T_00_00_05_000, <<"a", "b">>, <<"7">>, <<>>}

LineSeps == {ArrowSep, Arrow, <<" ", "\t">>, <<>>}

\* k tokens joined by separators
RECURSIVE TokenLines(_)
TokenLines(k) ==
    IF k = 1 THEN LineTokens
    ELSE {l \o s \o tk : l \in TokenLines(k - 1), s \in LineSeps, tk \in LineTokens}

ExampleLines ==
    {T_01_30_500 \o ArrowSep \o T_01_31_500,
     T_00_00_05_000 \o ArrowSep \o T_00_00_07_000,
     T_01_00_600 \o <<" ", " ">> \o T_01_01_600,
     <<"g", "a", "r", "b", "a", "g", "e">> \o ArrowSep \o <<"n", "o", "n", "s", "e", "n", "s", "e">>}

\* ln is up to MaxTokens tokens joined by separators, or an example line
IsLineInput(ln) ==
    \/ \E k \in 1..MaxTokens : ln \in TokenLines(k)
    \/ ln \in ExampleLines

\* the contents of the lines of a document, without their terminators
DocContents ==
    {<<"1">>,
     <<"H", "e", "l", "l", "o">>,
     <<>>,
     T_01_30_500 \o ArrowSep \o T_01_31_500,
     T_00_00_05_000 \o ArrowSep \o T_00_00_07_000,
     <<" ">> \o T_00_00_05_000 \o Arrow \o T_00_00_07_000 \o <<" ">>,
     T_01_00_600 \o <<" ", " ">> \o T_01_01_600,
     <<"x", " ">> \o T_1_30_500 \o <<"\t">> \o T_01_31_500 \o <<" ", "y">>,
     <<"g", "a", "r", "b", "a", "g", "e">> \o ArrowSep \o <<"n", "o", "n", "s", "e", "n", "s", "e">>,
     <<"a">> \o ArrowSep \o <<"b">> \o ArrowSep \o <<"c">>}

\* what readlines() returns: every line ends with '\n', except that the last
\* line of a file that does not end with a newline has no terminator (and is
\* not empty); '\r\n' and '\r' are read as '\n'
DocumentsOfLen(n) ==
    {[i \in 1..n |-> IF i < n \/ q[2] THEN q[1][i] \o <<"\n">> ELSE q[1][i]] :
        q \in {x \in [1..n -> DocContents] \X BOOLEAN :
                  n = 0 \/ x[2] \/ x[1][n] # <<>>}}

\* the contents of the lines of a document with lines to describe: fixed by
\* either branch, with one side or both to fix, padded, and lines not fixed
IssueContents ==
    {<<"1">>,
     <<" ", "x", " ">> \o T_1_30_500 \o <<"\t">> \o T_01_31_500 \o <<" ", "y", "\t">>,
     T_00_00_05_000 \o Arrow \o T_1_30_500,
     <<" ">> \o T_1_30_500 \o ArrowSep \o <<"g", "a", "r", "b", "a", "g", "e", "\t">>,
     <<"g", "a", "r", "b", "a", "g", "e">> \o ArrowSep \o T_00_00_05_000,
     T_00_00_05_000 \o ArrowSep \o T_00_00_07_000,
     <<"a">> \o ArrowSep \o <<"b">> \o ArrowSep \o <<"c">>}

IssueDocumentsOfLen(n) ==
    {[i \in 1..n |-> IF i < n \/ q[2] THEN q[1][i] \o <<"\n">> ELSE q[1][i]] :
        q \in [1..n -> IssueContents] \X BOOLEAN}

\* the contents of the lines of an uploaded document
WebContents == {<<"1">>, <<"a">> \o Arrow \o <<"b">>}

WebDocumentsOfLen(n) ==
    {[i \in 1..n |-> c[i] \o <<"\n">>] : c \in [1..n -> WebContents]}

\* the uploaded documents, of up to MaxLines lines
WebDocuments == UNION {WebDocumentsOfLen(n) : n \in 0..MaxLines}

\* doc is a document of up to MaxLines lines with lines to describe
IsIssueDocument(doc) == \E n \in 0..MaxLines : doc \in IssueDocumentsOfLen(n)

\* doc is a document of up to MaxLines lines
IsDocument(doc) == \E n \in 0..MaxLines : doc \in DocumentsOfLen(n)

(***************************************************************************)
(* Specifications                                                          *)
(***************************************************************************)
IdleTimestamp ==
    /\ timestamp = <<>> /\ analysis = None /\ fixed = None /\ refixed = None

IdleLine == line = <<>> /\ result = None

IdleFile ==
    /\ lines = <<>> /\ line_num = 0 /\ processed_lines = <<>>
    /\ stats = InitStats /\ outfile = None

IdleDemo ==
    /\ content = <<>> /\ arrow_lines = <<>> /\ analyzed_lines = <<>>
    /\ fixed_lines = <<>> /\ fixed_content = None

IdleWeb == calls = <<>> /\ folder = <<>> /\ served = <<>>

IdleRerun == first_pass = None

IdlePreview == preview = None /\ gui_issues = None

IdleGui ==
    /\ input_file = None /\ output_file = None
    /\ create_backup = FALSE /\ auto_output = FALSE
    /\ process_btn = "normal" /\ preview_btn = "normal"
    /\ workers = <<>> /\ after_queue = <<>> /\ disk = <<>>
    /\ status = <<>> /\ results_text = <<>> /\ edits = 0

IdleExt == IdleRerun /\ IdlePreview /\ IdleGui

\* the file pass on a document
Init ==
    /\ pc = "open"
    /\ IsDocument(lines)
    /\ line_num = 0
    /\ processed_lines = <<>>
    /\ stats = InitStats
    /\ outfile = None
    /\ IdleTimestamp /\ IdleLine /\ IdleDemo /\ IdleWeb /\ IdleExt

Next == ReadLines \/ ProcessLine \/ WriteFile

Spec == Init /\ [][Next]_vars

\* classify and repair on a timestamp text
InitTimestamp ==
    /\ pc = "ts_input"
    /\ IsTimestampInput(timestamp)
    /\ analysis = None /\ fixed = None /\ refixed = None
    /\ IdleLine /\ IdleFile /\ IdleDemo /\ IdleWeb /\ IdleExt

NextTimestamp == AnalyzeTimestamp \/ FixTimestamp \/ FixTimestampAgain

SpecTimestamp == InitTimestamp /\ [][NextTimestamp]_vars

\* analyzeLine on a line
InitLine ==
    /\ pc = "line_input"
    /\ IsLineInput(line)
    /\ result = None
    /\ IdleTimestamp /\ IdleFile /\ IdleDemo /\ IdleWeb /\ IdleExt

NextLine == AnalyzeLine

SpecLine == InitLine /\ [][NextLine]_vars

\* analyzeLine on a line, and the file pass on a document
InitLineAndFile == InitLine \/ Init

NextLineAndFile == NextLine \/ Next

SpecLineAndFile == InitLineAndFile /\ [][NextLineAndFile]_vars

\* the file pass on a document with lines to describe
InitIssues ==
    /\ pc = "open"
    /\ IsIssueDocument(lines)
    /\ line_num = 0
    /\ processed_lines = <<>>
    /\ stats = InitStats
    /\ outfile = None
    /\ IdleTimestamp /\ IdleLine /\ IdleDemo /\ IdleWeb /\ IdleExt

SpecIssues == InitIssues /\ [][Next]_vars

\* the file pass on a document and then on the file it has written
NextTwice == Next \/ RunAgain

SpecTwice == InitIssues /\ [][NextTwice]_vars

\* the contents of the lines of a file to preview
PreviewContents ==
    {<<"1">>,
     T_01_00_600 \o <<" ", " ">> \o T_01_01_600,
     T_1_30_500 \o <<"\f">> \o T_01_31_500,
     <<"a">> \o Arrow \o <<"b">>}

\* the line terminators of a file to preview, as stored
PreviewTerminators == {<<"\n">>, <<"\r", "\n">>}

\* the texts of n lines, of which the last may lack its terminator
PreviewTextsOfLen(n) ==
    {Flatten([i \in 1..n |-> q[1][i] \o (IF i < n \/ q[3] THEN q[2][i] ELSE <<>>)]) :
        q \in [1..n -> PreviewContents] \X [1..n -> PreviewTerminators] \X BOOLEAN}

\* t is the text of a file of up to MaxLines lines
IsPreviewText(t) == \E n \in 0..MaxLines : t \in PreviewTextsOfLen(n)

\* the two previews of a file
InitPreview ==
    /\ pc = "preview_input"
    /\ IsPreviewText(content)
    /\ arrow_lines = <<>> /\ analyzed_lines = <<>>
    /\ fixed_lines = <<>> /\ fixed_content = None
    /\ IdleTimestamp /\ IdleLine /\ IdleFile /\ IdleWeb /\ IdleExt

NextPreview == WebPreview \/ GuiPreview

SpecPreview == InitPreview /\ [][NextPreview]_vars

\* the files of the GUI: one that decodes and one that does not
GuiDisk ==
    [p \in InputPaths |->
        IF p = "a.srt" THEN <<<<"a">> \o Arrow \o <<"b", "\n">>>>
        ELSE <<<<InvalidByte>>>>]

\* the GUI after __init__ (lines 29-34) and create_widgets
InitGui ==
    /\ pc = "gui"
    /\ input_file = None /\ output_file = None
    /\ create_backup = TRUE /\ auto_output = TRUE
    /\ process_btn = "normal" /\ preview_btn = "normal"
    /\ workers = <<>> /\ after_queue = <<>>
    /\ disk = GuiDisk
    /\ status = ReadyStatus
    /\ results_text = <<>>
    /\ edits = 0
    /\ IdleTimestamp /\ IdleLine /\ IdleFile /\ IdleDemo /\ IdleWeb
    /\ IdleRerun /\ IdlePreview

NextGui ==
    \/ \E p \in InputPaths : BrowseInput(p)
    \/ \E p \in OutputPaths : BrowseOutput(p)
    \/ ToggleAutoOutput
    \/ ToggleBackup
    \/ ClearAll
    \/ ClickPreview
    \/ ClickProcess
    \/ RunCallback
    \/ \E i \in DOMAIN workers : WorkerStart(i)
    \/ \E i \in DOMAIN workers : WorkerBackup(i)
    \/ \E i \in DOMAIN workers : WorkerRead(i)
    \/ \E i \in DOMAIN workers : WorkerWrite(i)
    \/ \E i \in DOMAIN workers : WorkerSuccess(i)
    \/ \E i \in DOMAIN workers : WorkerExcept(i)
    \/ \E i \in DOMAIN workers : WorkerEnableProcess(i)
    \/ \E i \in DOMAIN workers : WorkerEnablePreview(i)

SpecGui == InitGui /\ [][NextGui]_vars

\* the file pass and then the demo script on the same document
NextCopies == Next \/ DemoRead \/ Step1 \/ Step2 \/ Step3 \/ Step4

SpecCopies == Init /\ [][NextCopies]_vars

\* the frame of a request that uploads the document doc
NewCall(doc) ==
    [pc |-> "idle", upload |-> doc, lines |-> <<>>, line_num |-> 0,
     processed_lines |-> <<>>, stats |-> InitStats, returned |-> None]

\* the web server with one upload request per element of Requests
InitWeb ==
    /\ pc = "web"
    /\ calls \in {[r \in Requests |-> NewCall(u[r])] : u \in [Requests -> WebDocuments]}
    /\ folder = <<>>
    /\ served = [r \in Requests |-> None]
    /\ IdleTimestamp /\ IdleLine /\ IdleFile /\ IdleDemo /\ IdleExt

NextWeb ==
    \E r \in Requests :
        \/ Upload(r)
        \/ WebReadLines(r)
        \/ WebProcessLine(r)
        \/ WebWriteFile(r)
        \/ ShowResults(r)
        \/ Download(r)

SpecWeb == InitWeb /\ [][NextWeb]_vars

\* uploads of which some are not valid UTF-8
ErrorUploads ==
    {<<<<"a">> \o Arrow \o <<"b", "\n">>>>,
     <<<<"1", "\n">>, <<InvalidByte, "\n">>>>,
     <<<<InvalidByte>>>>}

\* the web server with uploads that may fail to decode
InitWebErrors ==
    /\ pc = "web"
    /\ calls \in {[r \in Requests |-> NewCall(u[r])] : u \in [Requests -> ErrorUploads]}
    /\ folder = <<>>
    /\ served = [r \in Requests |-> None]
    /\ IdleTimestamp /\ IdleLine /\ IdleFile /\ IdleDemo /\ IdleExt

SpecWebErrors == InitWebErrors /\ [][NextWeb]_vars

\* classify and repair on a timestamp text, analyzeLine on a line, and the
\* file pass on a document
InitAll == InitTimestamp \/ InitLine \/ Init

NextAll == NextTimestamp \/ NextLine \/ Next

SpecAll == InitAll /\ [][NextAll]_vars

(***************************************************************************)
(* The shapes of timestamp texts, as the specification words them          *)
(***************************************************************************)
\* two digits ':' two digits ':' two digits ',' three digits
IsFullShape(s) ==
    /\ Len(s) = 12
    /\ \A i \in {1, 2, 4, 5, 7, 8, 10, 11, 12} : IsDigit(s[i])
    /\ s[3] = ":" /\ s[6] = ":" /\ s[9] = ","

\* one or two digits ':' two digits ',' three digits
IsShortShape(s) ==
    \E m \in 1..2 :
        /\ Len(s) = m + 7
        /\ \A i \in (1..m) \cup {m + 2, m + 3, m + 5, m + 6, m + 7} : IsDigit(s[i])
        /\ s[m + 1] = ":" /\ s[m + 4] = ","

\* the positions where '-->' occurs
ArrowPositions(s) == {i \in 1..Len(s) : ArrowAt(s, i)}

\* <<i, j>>: s[i..j] is of the short shape
ShortTokens(s) ==
    {tk \in {<<i, i + d>> : i \in 1..Len(s), d \in {7, 8}} :
        tk[2] <= Len(s) /\ IsShortShape(SubSeq(s, tk[1], tk[2]))}

\* <<<<i, j>>, <<k, l>>>>: s[i..j] and s[k..l] are of the short shape and
\* s[j+1..k-1] is one or more whitespace characters
ShortPairs(s) ==
    LET tokens == ShortTokens(s)
    IN {q \in tokens \X tokens :
          /\ q[2][1] > q[1][2] + 1
          /\ \A x \in (q[1][2] + 1)..(q[2][1] - 1) : IsSpace(s[x])}

(***************************************************************************)
(* Claims                                                                  *)
(***************************************************************************)
Ex_01_30 == T_01_30_500 \o ArrowSep \o T_01_31_500
Ex_00_00_05 == T_00_00_05_000 \o ArrowSep \o T_00_00_07_000
Ex_NoArrow == T_01_00_600 \o <<" ", " ">> \o T_01_01_600

\* C1: a line with exactly one '-->' is a timestamp line with arrow; its
\* trimmed left and right parts are classified independently, needs_fixing
\* holds iff one of the two classifications needs fixing, and then the fixed
\* line is repair(left) + " --> " + repair(right).
C1_OneArrowLine ==
    pc = "line_analyzed" =>
        LET r == Get(result)
        IN /\ Cardinality(ArrowPositions(line)) = 1 =>
                LET i == TheOnly(ArrowPositions(line))
                    left == strip(SubSeq(line, 1, i - 1))
                    right == strip(SubSeq(line, i + 3, Len(line)))
                    la == analyze_timestamp_format(left)
                    ra == analyze_timestamp_format(right)
                IN /\ r.is_timestamp_line /\ r.has_arrow
                   /\ r.left_timestamp = Some(left)
                   /\ r.right_timestamp = Some(right)
                   /\ r.left_analysis = Some(la)
                   /\ r.right_analysis = Some(ra)
                   /\ r.needs_fixing <=> (la.needs_fixing \/ ra.needs_fixing)
                   /\ r.needs_fixing =>
                        r.fixed_line = Some(fix_timestamp_format(left) \o ArrowSep
                                            \o fix_timestamp_format(right))
           /\ line = Ex_01_30 =>
                /\ r.needs_fixing
                /\ r.fixed_line = Some(T_00_01_30_500 \o ArrowSep \o T_00_01_31_500)
           /\ line = Ex_00_00_05 => ~r.needs_fixing

C1_Witness ==
    /\ pc = "line_analyzed"
    /\ line = T_00_00_05_000 \o Arrow \o T_1_30_500
    /\ Get(result).needs_fixing
    /\ Get(Get(result).left_analysis).needs_fixing = FALSE
    /\ Get(result).fixed_line = Some(T_00_00_05_000 \o ArrowSep \o T_00_01_30_500)

\* C2: a line without '-->' that holds two short-shaped tokens separated by
\* whitespace is a timestamp line without arrow that needs fixing; left and
\* right are the leftmost such pair and the fixed line is
\* repair(left) + " --> " + repair(right).
C2_MissingArrowLine ==
    pc = "line_analyzed" =>
        LET r == Get(result)
            pairs == ShortPairs(line)
        IN /\ (ArrowPositions(line) = {} /\ pairs # {}) =>
                LET first == CHOOSE q \in pairs : \A o \in pairs : q[1][1] <= o[1][1]
                    left == SubSeq(line, first[1][1], first[1][2])
                    right == SubSeq(line, first[2][1], first[2][2])
                IN /\ r.is_timestamp_line /\ ~r.has_arrow /\ r.needs_fixing
                   /\ r.left_timestamp = Some(left)
                   /\ r.right_timestamp = Some(right)
                   /\ r.fixed_line = Some(fix_timestamp_format(left) \o ArrowSep
                                          \o fix_timestamp_format(right))
           /\ line = Ex_NoArrow =>
                r.fixed_line = Some(T_00_01_00_600 \o ArrowSep \o T_00_01_01_600)

C2_Witness ==
    /\ pc = "line_analyzed"
    /\ line = T_1_30_500 \o <<" ", "\t">> \o T_01_31_500 \o <<" ", "\t">> \o T_1_30_500
    /\ Get(result).fixed_line = Some(T_00_01_30_500 \o ArrowSep \o T_00_01_31_500)

\* C3: a text whose trimmed form is of the short shape is classified
\* 'MM:SS,mmm' with needs_fixing, and its repair is '00:' followed by the
\* minutes zero-padded to two digits and the unchanged ':SS,mmm'.
C3_ShortShape ==
    (IsSome(analysis) /\ IsSome(fixed)) =>
        LET c == strip(timestamp)
        IN /\ IsShortShape(c) =>
                /\ Get(analysis).format_detected = "MM:SS,mmm"
                /\ Get(analysis).needs_fixing
                /\ Get(fixed) = <<"0", "0", ":">>
                                \o (IF Len(c) = 8 THEN <<"0">> ELSE <<>>) \o c
           /\ c = T_1_30_500 => Get(fixed) = T_00_01_30_500
           /\ c = T_01_30_500 => Get(fixed) = T_00_01_30_500

C3_Witness ==
    /\ pc = "ts_fixed"
    /\ timestamp = <<"\t", " ">> \o T_1_30_500 \o <<"\n">>
    /\ Get(analysis).format_detected = "MM:SS,mmm"
    /\ Get(fixed) = T_00_01_30_500

\* C4: a text whose trimmed form is of the full shape is classified
\* 'HH:MM:SS,mmm' without needs_fixing, whatever its numbers, and its repair
\* is the trimmed text.
C4_FullShape ==
    (IsSome(analysis) /\ IsSome(fixed)) =>
        LET c == strip(timestamp)
        IN IsFullShape(c) =>
              /\ Get(analysis).format_detected = "HH:MM:SS,mmm"
              /\ ~Get(analysis).needs_fixing
              /\ Get(fixed) = c

C4_Witness ==
    /\ pc = "ts_fixed"
    /\ timestamp = <<" ">> \o <<"9", "9", ":", "9", "9", ":", "9", "9", ",", "9", "9", "9">>
    /\ ~Get(analysis).needs_fixing
    /\ Get(fixed) = <<"9", "9", ":", "9", "9", ":", "9", "9", ",", "9", "9", "9">>

\* the analysis the file pass makes of the i-th line of the document
LineAnalysis(i) == find_and_analyze_timestamp_line(rstrip_newlines(lines[i]))

ExampleDocument ==
    <<<<"1", "\n">>,
      Ex_01_30 \o <<"\n">>,
      <<"H", "e", "l", "l", "o", "\n">>>>

\* C5: the file pass returns total_lines = the number of input lines,
\* timestamp_lines_found = the number of lines analyzeLine flags as timestamp
\* lines, timestamp_lines_fixed = the number of those that need fixing, and
\* the output line at each fixed position is the fixed line and a newline.
C5_FilePassStats ==
    pc = "done" =>
        LET out == Get(outfile)
            found == {i \in 1..Len(lines) : LineAnalysis(i).is_timestamp_line}
            fixes == {i \in found : LineAnalysis(i).needs_fixing}
        IN /\ stats.total_lines = Len(lines)
           /\ stats.timestamp_lines_found = Cardinality(found)
           /\ stats.timestamp_lines_fixed = Cardinality(fixes)
           /\ Len(out) = Len(lines)
           /\ \A i \in fixes : out[i] = Get(LineAnalysis(i).fixed_line) \o <<"\n">>
           /\ lines = ExampleDocument =>
                /\ stats.total_lines = 3
                /\ stats.timestamp_lines_found = 1
                /\ stats.timestamp_lines_fixed = 1
                /\ out[2] = T_00_01_30_500 \o ArrowSep \o T_00_01_31_500 \o <<"\n">>

C5_Witness ==
    /\ pc = "done"
    /\ lines = ExampleDocument
    /\ stats.timestamp_lines_fixed = 1
    /\ Get(outfile)[2] = T_00_01_30_500 \o ArrowSep \o T_00_01_31_500 \o <<"\n">>

\* a line that is no timestamp line, or one whose single '-->' has a
\* full-shaped text on both sides
WellFormedLine(s) ==
    \/ ArrowPositions(s) = {} /\ ShortPairs(s) = {}
    \/ /\ Cardinality(ArrowPositions(s)) = 1
       /\ LET i == TheOnly(ArrowPositions(s))
          IN /\ IsFullShape(strip(SubSeq(s, 1, i - 1)))
             /\ IsFullShape(strip(SubSeq(s, i + 3, Len(s))))

\* C6: on a document whose timestamp lines are all in full format on both
\* sides, the file pass fixes no line and writes the lines it read.
C6_WellFormedRoundTrip ==
    (pc = "done" /\ \A i \in 1..Len(lines) : WellFormedLine(rstrip_newlines(lines[i])))
        => /\ stats.timestamp_lines_fixed = 0
           /\ Get(outfile) = lines

C6_Witness ==
    /\ pc = "done"
    /\ Len(lines) = 2
    /\ lines[1] = Ex_00_00_05 \o <<"\n">>
    /\ lines[2] = <<" ">> \o T_00_00_05_000 \o Arrow \o T_00_00_07_000 \o <<" ">>
    /\ stats.timestamp_lines_found = 2
    /\ Get(outfile) = lines

\* C7: an analysis with needs_fixing carries a fixed line, and the file pass
\* emits a line whose analysis has no needs_fixing exactly as it was read.
C7_FixedLineOrUnchanged ==
    /\ pc = "line_analyzed" =>
          (Get(result).needs_fixing => IsSome(Get(result).fixed_line))
    /\ pc = "done" =>
          /\ Len(Get(outfile)) = Len(lines)
          /\ \A i \in 1..Len(lines) :
                /\ LineAnalysis(i).needs_fixing => IsSome(LineAnalysis(i).fixed_line)
                /\ ~LineAnalysis(i).needs_fixing => Get(outfile)[i] = lines[i]

C7_Witness ==
    /\ pc = "done"
    /\ Len(lines) = 2
    /\ lines[1] = Ex_NoArrow \o <<"\n">>
    /\ lines[2] = <<" ">> \o T_00_00_05_000 \o Arrow \o T_00_00_07_000 \o <<" ">>
    /\ LineAnalysis(1).needs_fixing /\ ~LineAnalysis(2).needs_fixing
    /\ Get(outfile)[2] = lines[2]

\* C8: repair is idempotent: repairing a repaired text changes nothing.
C8_RepairIdempotent ==
    pc = "ts_refixed" => Get(refixed) = Get(fixed)

C8_Witness ==
    /\ pc = "ts_refixed"
    /\ timestamp = <<"\t", " ">> \o T_1_30_500 \o <<"\n">>
    /\ Get(fixed) = T_00_01_30_500
    /\ Get(refixed) = T_00_01_30_500

\* C9: a text whose trimmed form is neither of the full nor of the short
\* shape is classified 'unknown' with needs_fixing, and its repair is the
\* trimmed text.
C9_UnknownShape ==
    (IsSome(analysis) /\ IsSome(fixed)) =>
        LET c == strip(timestamp)
        IN (~IsFullShape(c) /\ ~IsShortShape(c)) =>
              /\ Get(analysis).format_detected = "unknown"
              /\ Get(analysis).needs_fixing
              /\ Get(fixed) = c

C9_Witness ==
    /\ pc = "ts_fixed"
    /\ timestamp = <<"\t", " ">> \o T_01_30_500 \o <<"x", "\n">>
    /\ Get(analysis).format_detected = "unknown"
    /\ Get(fixed) = T_01_30_500 \o <<"x">>

\* 'HH:MM:SS,mmm --> HH:MM:SS,mmm'
IsCanonicalLine(s) ==
    /\ Len(s) = 29
    /\ IsFullShape(SubSeq(s, 1, 12))
    /\ SubSeq(s, 13, 17) = ArrowSep
    /\ IsFullShape(SubSeq(s, 18, 29))

\* C10: every line that analyzeLine rewrites (needs_fixing) has a fixed line
\* of the canonical form 'HH:MM:SS,mmm --> HH:MM:SS,mmm'.
C10_FixedLineCanonical ==
    (pc = "line_analyzed" /\ Get(result).needs_fixing) =>
        /\ IsSome(Get(result).fixed_line)
        /\ IsCanonicalLine(Get(Get(result).fixed_line))

MultiArrowLine == <<"a">> \o ArrowSep \o <<"b">> \o ArrowSep \o <<"c">>

\* C11: a line with two or more '-->' is analysed as a timestamp line with
\* arrow, without timestamps, without needs_fixing and without fixed line;
\* the file pass counts it as found, not as fixed, and emits it as read.
C11_MultiArrowLine ==
    [][/\ (pc = "line_input" /\ Cardinality(ArrowPositions(line)) >= 2) =>
             /\ IsSome(result')
             /\ Get(result').is_timestamp_line /\ Get(result').has_arrow
             /\ Get(result').left_timestamp = None
             /\ Get(result').right_timestamp = None
             /\ Get(result').left_analysis = None
             /\ Get(result').right_analysis = None
             /\ ~Get(result').needs_fixing
             /\ Get(result').fixed_line = None
       /\ (/\ pc = "loop" /\ line_num < Len(lines)
           /\ Cardinality(ArrowPositions(rstrip_newlines(lines[line_num + 1]))) >= 2) =>
             /\ stats'.timestamp_lines_found = stats.timestamp_lines_found + 1
             /\ stats'.timestamp_lines_fixed = stats.timestamp_lines_fixed
             /\ stats'.issues_found = stats.issues_found
             /\ stats'.fixes_applied = stats.fixes_applied
             /\ processed_lines' = Append(processed_lines, lines[line_num + 1])
      ]_vars

C11_Witness ==
    /\ pc = "done"
    /\ lines = <<MultiArrowLine \o <<"\n">>, MultiArrowLine>>
    /\ stats.timestamp_lines_found = 2
    /\ stats.timestamp_lines_fixed = 0
    /\ Get(outfile) = lines

\* no '-->' and no whitespace-separated pair of short-shaped tokens
IsPlainLine(s) == ArrowPositions(s) = {} /\ ShortPairs(s) = {}

\* C12: a line with neither '-->' nor a whitespace-separated pair of
\* short-shaped tokens is analysed as no timestamp line, without
\* needs_fixing; the file pass emits it as read, terminator included, and
\* leaves every counter and both description lists alone.
C12_PlainLine ==
    [][/\ (pc = "line_input" /\ IsPlainLine(line)) =>
             /\ IsSome(result')
             /\ ~Get(result').is_timestamp_line
             /\ ~Get(result').has_arrow
             /\ ~Get(result').needs_fixing
             /\ Get(result').fixed_line = None
       /\ (/\ pc = "loop" /\ line_num < Len(lines)
           /\ IsPlainLine(rstrip_newlines(lines[line_num + 1]))) =>
             /\ stats' = stats
             /\ processed_lines' = Append(processed_lines, lines[line_num + 1])
      ]_vars

C12_Witness ==
    /\ pc = "done"
    /\ lines = <<<<"1", "\n">>, <<"\n">>, <<"H", "e", "l", "l", "o">>>>
    /\ stats.timestamp_lines_found = 0
    /\ stats.timestamp_lines_fixed = 0
    /\ stats.issues_found = <<>>
    /\ Get(outfile) = lines

\* the positions where an operation has returned
Returned == {"ts_refixed", "line_analyzed", "done"}

C14_ArrowPrecedence ==
    (/\ pc = "line_analyzed"
     /\ ArrowPositions(line) # {}
     /\ ShortPairs(line) # {}) =>
        LET r == Get(result)
            pairs == ShortPairs(line)
            first == CHOOSE q \in pairs : \A o \in pairs : q[1][1] <= o[1][1]
            pair_left == SubSeq(line, first[1][1], first[1][2])
            pair_right == SubSeq(line, first[2][1], first[2][2])
        IN /\ r.is_timestamp_line /\ r.has_arrow
           /\ <<r.left_timestamp, r.right_timestamp>>
                 # <<Some(pair_left), Some(pair_right)>>
           /\ Cardinality(ArrowPositions(line)) = 1 =>
                LET i == TheOnly(ArrowPositions(line))
                IN /\ r.left_timestamp = Some(strip(SubSeq(line, 1, i - 1)))
                   /\ r.right_timestamp = Some(strip(SubSeq(line, i + 3, Len(line))))
           /\ Cardinality(ArrowPositions(line)) > 1 =>
                r.left_timestamp = None /\ r.right_timestamp = None

C14_Witness ==
    /\ pc = "line_analyzed"
    /\ line = T_1_30_500 \o <<" ", "\t">> \o T_01_31_500 \o Arrow \o T_00_00_05_000
    /\ Get(result).has_arrow
    /\ Get(result).left_timestamp = Some(T_1_30_500 \o <<" ", "\t">> \o T_01_31_500)
    /\ Get(result).right_timestamp = Some(T_00_00_05_000)
    /\ Get(result).fixed_line =
          Some(T_1_30_500 \o <<" ", "\t">> \o T_01_31_500 \o ArrowSep \o T_00_00_05_000)

Garbage == <<"g", "a", "r", "b", "a", "g", "e">>
Nonsense == <<"n", "o", "n", "s", "e", "n", "s", "e">>

\* neither of the full nor of the short shape
IsUnknownShape(s) == ~IsFullShape(s) /\ ~IsShortShape(s)

\* s has exactly one '-->' and the trimmed text on both sides of it is of
\* unknown shape
BothSidesUnknown(s) ==
    /\ Cardinality(ArrowPositions(s)) = 1
    /\ LET i == TheOnly(ArrowPositions(s))
       IN /\ IsUnknownShape(strip(SubSeq(s, 1, i - 1)))
          /\ IsUnknownShape(strip(SubSeq(s, i + 3, Len(s))))

\* the trimmed sides of the single arrow of s, joined by ' --> '
SidesRejoined(s) ==
    LET i == TheOnly(ArrowPositions(s))
    IN strip(SubSeq(s, 1, i - 1)) \o ArrowSep \o strip(SubSeq(s, i + 3, Len(s)))

\* C15: on a line with exactly one '-->' whose sides are both of unknown
\* format, analyzeLine sets needs_fixing and the fixed line is the two trimmed
\* sides joined by ' --> ', their text unaltered; the file pass counts the
\* line as found and as fixed and emits that fixed line.
C15_UnknownSidesCountedFixed ==
    [][/\ (pc = "line_input" /\ BothSidesUnknown(line)) =>
             /\ Get(result').needs_fixing
             /\ Get(result').fixed_line = Some(SidesRejoined(line))
       /\ (/\ pc = "loop" /\ line_num < Len(lines)
           /\ BothSidesUnknown(rstrip_newlines(lines[line_num + 1]))) =>
             /\ stats'.timestamp_lines_found = stats.timestamp_lines_found + 1
             /\ stats'.timestamp_lines_fixed = stats.timestamp_lines_fixed + 1
             /\ processed_lines' =
                   Append(processed_lines,
                          SidesRejoined(rstrip_newlines(lines[line_num + 1]))
                          \o <<"\n">>)
      ]_vars

C15_Witness ==
    /\ pc = "done"
    /\ lines = <<Garbage \o ArrowSep \o Nonsense \o <<"\n">>>>
    /\ stats.timestamp_lines_fixed = 1
    /\ Get(outfile) = lines

\* the side note of an issue description for a side whose text is side: none
\* for a full-shaped text, else the format of the text
SideNote(side) ==
    IF side = None \/ IsFullShape(Get(side)) THEN None
    ELSE IF IsShortShape(Get(side)) THEN Some("MM:SS,mmm")
    ELSE Some("unknown")

PaddedPairLine ==
    <<" ", "x", " ">> \o T_1_30_500 \o <<"\t">> \o T_01_31_500 \o <<" ", "y", "\t">>

\* C16: each loop step of the file pass on a line it fixes appends one issue
\* description, with the 1-indexed line number, the trimmed text of the line,
\* 'missing arrow' iff the line has no '-->', and for each side its format
\* iff that side needs fixing; a step on any other line appends none; so the
\* descriptions are one per fixed line, in increasing line order.
C16_IssueDescriptions ==
    [][(pc = "loop" /\ line_num < Len(lines)) =>
         LET n == line_num + 1
             body == rstrip_newlines(lines[n])
             a == find_and_analyze_timestamp_line(body)
             issues == stats'.issues_found
         IN /\ IF a.is_timestamp_line /\ a.needs_fixing
               THEN issues = Append(stats.issues_found,
                                    [line_num |-> n,
                                     text |-> strip(body),
                                     missing_arrow |-> ArrowPositions(body) = {},
                                     left |-> SideNote(a.left_timestamp),
                                     right |-> SideNote(a.right_timestamp)])
               ELSE issues = stats.issues_found
            /\ Len(issues) = stats'.timestamp_lines_fixed
            /\ \A k \in 1..(Len(issues) - 1) :
                  issues[k].line_num < issues[k + 1].line_num
      ]_vars

C16_Witness ==
    /\ pc = "done"
    /\ lines = <<PaddedPairLine \o <<"\n">>,
                 <<"1", "\n">>,
                 T_00_00_05_000 \o Arrow \o T_1_30_500 \o <<"\n">>>>
    /\ Len(stats.issues_found) = 2
    /\ stats.issues_found[1] =
          [line_num |-> 1,
           text |-> <<"x", " ">> \o T_1_30_500 \o <<"\t">> \o T_01_31_500 \o <<" ", "y">>,
           missing_arrow |-> TRUE,
           left |-> Some("MM:SS,mmm"),
           right |-> Some("MM:SS,mmm")]
    /\ stats.issues_found[2].line_num = 3

\* the trailing newline characters of a line as read
Terminator(s) == SubSeq(s, Len(rstrip_newlines(s)) + 1, Len(s))

\* C17: the file pass analyses each line without its trailing newline
\* characters and emits a rewritten line as the fixed text followed by the
\* terminator stripped from the original line, so that every line has the
\* same terminator before and after the pass.
C17_TerminatorRestored ==
    pc = "done" =>
        \A i \in 1..Len(lines) :
            /\ Terminator(Get(outfile)[i]) = Terminator(lines[i])
            /\ (LineAnalysis(i).is_timestamp_line /\ LineAnalysis(i).needs_fixing) =>
                  Get(outfile)[i] = Get(LineAnalysis(i).fixed_line)
                                    \o Terminator(lines[i])

\* C18: the copies of the algorithm give the same corrected lines for every
\* document and none fails where another succeeds: the demo script ends
\* without exception on the document the file pass has processed, and the
\* text it writes is the text of the lines the file pass writes.
C18_CopiesAgree ==
    /\ pc # "demo_failed"
    /\ pc = "demo_done" => Get(fixed_content) = Flatten(Get(outfile))

\* C19: two file passes that run interleaved through the one processor of
\* the web server do not disturb each other: at every point of either pass
\* its output lines are those of the pass run alone, and the output file and
\* the statistics it returns are those of the pass run alone.
C19_IndependentPasses ==
    \A r \in DOMAIN calls :
        LET call == calls[r]
            alone == RunAlone(call.upload)
        IN /\ call.pc # "error"
           /\ call.pc = "loop" =>
                /\ call.lines = call.upload
                /\ call.processed_lines = SubSeq(alone.out, 1, call.line_num)
           /\ call.pc \in {"written", "done"} =>
                folder[output_filename(r)] = alone.out
           /\ call.pc = "done" => call.returned = Some(alone.stats)

C19_Witness ==
    /\ pc = "web"
    /\ calls["r1"].upload = <<<<"1", "\n">>, <<"a">> \o Arrow \o <<"b", "\n">>>>
    /\ calls["r2"].upload = <<<<"a">> \o Arrow \o <<"b", "\n">>, <<"1", "\n">>>>
    /\ calls["r1"].pc = "loop" /\ calls["r1"].line_num = 1
    /\ calls["r2"].pc = "done"
    /\ Get(calls["r2"].returned).timestamp_lines_fixed = 1
    /\ Get(calls["r2"].returned).issues_found[1].line_num = 1
    /\ folder[output_filename("r2")] =
          <<<<"a">> \o ArrowSep \o <<"b", "\n">>, <<"1", "\n">>>>

\* C20: the output file is deleted after download: once a download request
\* for the output file of a request has been served, the file is no longer
\* in the upload folder.
C20_DeletedAfterDownload ==
    \A r \in DOMAIN served :
        (IsSome(served[r]) /\ served[r] # NotFound) =>
            output_filename(r) \notin DOMAIN folder

\* '00:' followed by two digits ':' two digits ',' three digits
IsZeroHourShape(s) == IsFullShape(s) /\ SubSeq(s, 1, 3) = <<"0", "0", ":">>

\* C22: whenever the missing-arrow branch fires, both extracted tokens are
\* classified 'MM:SS,mmm' with needs_fixing, and the fixed line is
\* '00:MM:SS,mmm --> 00:MM:SS,mmm', in full format on both sides.
C22_PairBranchShort ==
    (/\ pc = "line_analyzed"
     /\ Get(result).is_timestamp_line
     /\ ~Get(result).has_arrow) =>
        LET r == Get(result)
            fl == Get(r.fixed_line)
        IN /\ r.needs_fixing
           /\ IsShortShape(Get(r.left_timestamp))
           /\ IsShortShape(Get(r.right_timestamp))
           /\ Get(r.left_analysis).format_detected = "MM:SS,mmm"
           /\ Get(r.left_analysis).needs_fixing
           /\ Get(r.right_analysis).format_detected = "MM:SS,mmm"
           /\ Get(r.right_analysis).needs_fixing
           /\ Len(fl) = 29
           /\ IsZeroHourShape(SubSeq(fl, 1, 12))
           /\ SubSeq(fl, 13, 17) = ArrowSep
           /\ IsZeroHourShape(SubSeq(fl, 18, 29))
           /\ SubSeq(fl, 4, 12) = (IF Len(Get(r.left_timestamp)) = 8 THEN <<"0">> ELSE <<>>)
                                  \o Get(r.left_timestamp)
           /\ SubSeq(fl, 21, 29) = (IF Len(Get(r.right_timestamp)) = 8 THEN <<"0">> ELSE <<>>)
                                    \o Get(r.right_timestamp)

C22_Witness ==
    /\ pc = "line_analyzed"
    /\ line = <<"7">> \o T_1_30_500 \o <<" ", "\t">> \o T_01_31_500
    /\ ~Get(result).has_arrow
    /\ Get(result).left_timestamp = Some(<<"7">> \o T_1_30_500)
    /\ Get(result).fixed_line =
          Some(<<"0", "0", ":", "7">> \o T_1_30_500 \o ArrowSep \o T_00_01_31_500)

\* the characters of s that are not whitespace, in order
NotSpace(c) == ~IsSpace(c)

NonSpace(s) == SelectSeq(s, NotSpace)

\* a can be obtained from b by deleting characters
RECURSIVE IsSubsequence(_, _)
IsSubsequence(a, b) ==
    IF a = <<>> THEN TRUE
    ELSE IF b = <<>> THEN FALSE
    ELSE IF Head(a) = Head(b) THEN IsSubsequence(Tail(a), Tail(b))
    ELSE IsSubsequence(a, Tail(b))

\* C23: rewriting a line never loses content: for every line with
\* needs_fixing, the fixed line contains every non-whitespace character of the
\* original line in the same order (text or digits around the pair matched by
\* the missing-arrow branch included).
C23_ContentKept ==
    (/\ pc = "line_analyzed"
     /\ Get(result).needs_fixing) =>
        IsSubsequence(NonSpace(line), NonSpace(Get(Get(result).fixed_line)))

\* C27: at every point of the file pass timestamp_lines_fixed <=
\* timestamp_lines_found <= number of lines processed so far <= total_lines,
\* and the number of issue descriptions equals timestamp_lines_fixed and the
\* number of fixes_applied entries.
C27_StatsOrdered ==
    pc \in {"loop", "failed", "done"} =>
        /\ stats.timestamp_lines_fixed <= stats.timestamp_lines_found
        /\ stats.timestamp_lines_found <= line_num
        /\ line_num <= stats.total_lines
        /\ stats.total_lines = Len(lines)
        /\ Len(stats.issues_found) = stats.timestamp_lines_fixed
        /\ Len(stats.fixes_applied) = stats.timestamp_lines_fixed

C27_Witness ==
    /\ pc = "loop"
    /\ 0 < stats.timestamp_lines_fixed
    /\ stats.timestamp_lines_fixed < stats.timestamp_lines_found
    /\ stats.timestamp_lines_found < line_num
    /\ Len(stats.issues_found) = 1

\* the output line of the file pass for the line ln as read
LineOutput(ln) == emit_line(ln, find_and_analyze_timestamp_line(rstrip_newlines(ln)))

\* the output so far has one line per line visited, and the pass can take a
\* step until it has written the file after the last line
FilePassCounted ==
    /\ (pc \in {"loop", "done"}) =>
          (Len(processed_lines) = line_num /\ line_num <= Len(lines))
    /\ (pc = "done") =>
          (/\ line_num = Len(lines)
           /\ outfile = Some(processed_lines)
           /\ Len(Get(outfile)) = Len(lines))
    /\ (pc \in {"open", "loop"}) => ENABLED Next

\* a step of the loop takes the next line and appends the output of that line
FilePassStep ==
    /\ lines' = lines
    /\ (pc = "loop") =>
          (\/ /\ line_num < Len(lines)
              /\ line_num' = line_num + 1
              /\ processed_lines' =
                    Append(processed_lines, LineOutput(lines[line_num + 1]))
              /\ pc' = "loop"
           \/ /\ line_num = Len(lines)
              /\ pc' = "done"
              /\ UNCHANGED <<line_num, processed_lines>>)

\* C26: the file pass visits each input line exactly once in order and emits
\* exactly one output line per input line: each step takes the next line and
\* appends the output of that line alone, the corrected sequence written at
\* the end has the length of the input, and the pass can always take a step
\* until it has written the file after the last line.
C26_OneLinePerLine == [][FilePassCounted /\ FilePassStep /\ FilePassCounted']_vars

C26_Witness ==
    /\ pc = "done"
    /\ Len(lines) = MaxLines
    /\ lines[1] = <<"\n">>
    /\ lines[2] = T_01_00_600 \o <<" ", " ">> \o T_01_01_600 \o <<"\n">>
    /\ Get(outfile)[1] = <<"\n">>
    /\ Get(outfile)[2] = T_00_01_00_600 \o ArrowSep \o T_00_01_01_600 \o <<"\n">>
    /\ Get(outfile)[3] = lines[3]

\* the /upload request r has completed, with the results page or with the
\* error message
UploadCompleted(r) == calls[r].pc \in {"done", "error"}

\* C21: after any /upload request has completed, whether processing succeeded
\* or raised an error such as an undecodable file, the saved copy of the
\* uploaded input file no longer exists in the upload folder.
C21_InputDeletedAfterUpload ==
    pc = "web" =>
        \A r \in Requests :
            UploadCompleted(r) => input_filename(r) \notin DOMAIN folder

\* the second run of the file pass has returned
SecondPassDone == pc = "done" /\ IsSome(first_pass)

\* C24: the file pass is idempotent on document text: running it on the
\* corrected lines of a document yields exactly those corrected lines again.
C24_PassIdempotent ==
    SecondPassDone =>
        /\ lines = Get(first_pass).out
        /\ Get(outfile) = Get(first_pass).out

C24_Witness ==
    /\ SecondPassDone
    /\ Get(first_pass).lines =
          <<<<" ", "x", " ">> \o T_1_30_500 \o <<"\t">> \o T_01_31_500
                \o <<" ", "y", "\t", "\n">>,
            T_00_00_05_000 \o Arrow \o T_1_30_500>>
    /\ Get(outfile) =
          <<T_00_01_30_500 \o ArrowSep \o T_00_01_31_500 \o <<"\n">>,
            T_00_00_05_000 \o ArrowSep \o T_00_01_30_500 \o <<"\n">>>>

\* C25: the fixer converges in one pass: running the file pass on the
\* corrected lines of a document reports timestamp_lines_fixed = 0 and an
\* empty issue list.
C25_SecondPassClean ==
    SecondPassDone =>
        /\ stats.timestamp_lines_fixed = 0
        /\ stats.issues_found = <<>>

\* processing the file of text t: the pass of the web server and of the GUI
Processed(t) == RunAlone(read_text_lines(t))

\* the issue p of a preview is the description d of the pass and its fixed
\* text is the line that the pass wrote in place of line d.line_num
SameIssue(p, d, out) ==
    /\ p.line_number = d.line_num
    /\ p.original = d.text
    /\ p.issues = (IF d.missing_arrow THEN <<<<"missing arrow">>>> ELSE <<>>)
                    \o (IF IsSome(d.left) THEN <<<<"left", Get(d.left)>>>> ELSE <<>>)
                    \o (IF IsSome(d.right) THEN <<<<"right", Get(d.right)>>>> ELSE <<>>)
    /\ IsSome(p.fixed)
    /\ out[d.line_num] = Get(p.fixed) \o <<"\n">>

\* C28: preview agrees with processing: the issues reported by /preview of
\* the web server and by analyze_file_for_issues of the GUI are exactly the
\* lines that processing the same file rewrites, with the same line numbers
\* and the same fixed text and issue descriptions, and preview writes no file.
C28_PreviewAgrees ==
    pc = "preview_input" =>
        /\ IsSome(preview) =>
              \E run \in {Processed(content)} :
                 /\ Get(preview).issues_count = Len(run.stats.issues_found)
                 /\ Len(Get(preview).issues) = Len(run.stats.issues_found)
                 /\ \A k \in 1..Len(Get(preview).issues) :
                       SameIssue(Get(preview).issues[k], run.stats.issues_found[k], run.out)
        /\ IsSome(gui_issues) =>
              Get(gui_issues) = Processed(content).stats.issues_found
        /\ folder = <<>> /\ outfile = None /\ disk = <<>>

\* the part of C28 about the GUI alone
GuiPreviewAgrees ==
    (pc = "preview_input" /\ IsSome(gui_issues)) =>
        Get(gui_issues) = Processed(content).stats.issues_found

\* the thread of worker w has not ended
IsRunning(w) == w.pc # "ended"

\* C29: once start_processing has passed validation, the Process and Preview
\* buttons are disabled for as long as the worker thread runs, so that no
\* second worker is started while one is running.
C29_ButtonsDisabledWhileRunning ==
    pc = "gui" =>
        /\ \A i \in DOMAIN workers :
              IsRunning(workers[i]) =>
                 process_btn = "disabled" /\ preview_btn = "disabled"
        /\ Cardinality({i \in DOMAIN workers : IsRunning(workers[i])}) <= 1

\* C30: a running worker operates on the paths that validate_inputs accepted
\* when Process was clicked: the file it backs up, the file it reads and the
\* file it writes are those validated paths, whatever the user does with
\* Clear and Browse while it runs.
C30_WorkerUsesValidatedPaths ==
    pc = "gui" =>
        \A i \in DOMAIN workers :
            LET w == workers[i]
            IN /\ IsSome(w.backup_src) => Get(w.backup_src) = Some(w.validated_in)
               /\ IsSome(w.read_path) => Get(w.read_path) = Some(w.validated_in)
               /\ IsSome(w.write_path) => Get(w.write_path) = Some(w.validated_out)

====
